---- MODULE Spec2Model ----
(***************************************************************************)
(* Model of the doof runtime and VM.                                       *)
(*                                                                         *)
(*  Part 1: the async runtime of doof_runtime.h / doof_runtime.cpp         *)
(*          (TaskBase::run, TaskBase::wait, Task<T>::execute,              *)
(*          Future<T>::get, Future<T>::wait).                              *)
(*  Part 2: the register VM of vm/src/vm.cpp (DoofVM::run and the opcode   *)
(*          handlers for calls, returns, lambdas and extern calls).        *)
(***************************************************************************)
EXTENDS Integers, Sequences, FiniteSets, TLC

(***************************************************************************)
(* Bounds                                                                  *)
(***************************************************************************)
\* number of threads that call Future::get() / Future::wait() on the task
NumCallers == 2
\* number of distinct values the task body may produce
NumTaskValues == 2
\* number of worker threads of the pool (ThreadPool::ThreadPool(threads))
NumWorkers == 2
\* number of tasks submitted to the pool
MaxTasks == 3
\* number of calls a host makes on the breakpoint interface of DebugState
MaxCalls == 4

(***************************************************************************)
(* Part 1: async runtime                                                   *)
(***************************************************************************)
VARIABLES
    queue,        \* ThreadPool::queue: the submitted tasks not yet dequeued
    stop,         \* ThreadPool::stop
    queue_cv,     \* ThreadPool::queue_cv: the workers blocked in queue_cv.wait
    worker_pc,    \* position of every worker in worker_loop
    worker_task,  \* the local `task` of every worker (0: none)
    submitted,    \* number of submit calls made
    submit_pc,    \* the submitting thread: "idle" or "notify"
    dtor_pc,      \* ~ThreadPool: "none", "notify", "join" or "done"
    dequeued,     \* how many times every task was popped from the queue
    run_calls,    \* how many task->run() calls of a worker returned, per task
    terminate_    \* std::terminate was called (exception left a worker)

poolVars == <<queue, stop, queue_cv, worker_pc, worker_task, submitted, submit_pc,
              dtor_pc, dequeued, run_calls, terminate_>>

VARIABLES
    state,        \* TaskBase::state (std::atomic<TaskState>)
    result,       \* Task<T>::result (std::optional<T>)
    mutex,        \* TaskBase::mutex: FreeMutex or the thread that owns it
    cv,           \* TaskBase::cv: the threads blocked in cv.wait
    tpc,          \* position of every thread
    api,          \* what every thread called: "run", "get" or "wait"
    cas,          \* outcome of every thread's compare_exchange_strong
    exec_count,   \* number of times execute() was entered
    produced,     \* the values func() returned, in order
    got,          \* what Future::get() returned to every caller
    aborted       \* std::terminate was called (exception left a pool thread)

taskVars == <<state, result, mutex, cv, tpc, api, cas, exec_count, produced, got, aborted,
              poolVars>>

\* enum class TaskState
PENDING == "PENDING"
RUNNING == "RUNNING"
COMPLETED == "COMPLETED"
TaskState == {PENDING, RUNNING, COMPLETED}

\* the pool worker thread (ThreadPool::worker_loop calling task->run())
Worker == 0
\* the threads holding a Future to the task
Callers == 1..NumCallers
Threads == {Worker} \cup Callers

\* Value::make_null() as a task result
TaskNull == 0
\* the values func() may return (Null among them)
TaskValues == {TaskNull} \cup (1..NumTaskValues)
\* std::optional<T> without a value
nullopt == -2
\* the mutex is not owned
FreeMutex == -1
\* get() has not returned
NoValue == -1

TaskInit ==
    /\ state = PENDING
    /\ result = nullopt
    /\ mutex = FreeMutex
    /\ cv = {}
    /\ tpc = [t \in Threads |-> "idle"]
    /\ api = [t \in Threads |-> "none"]
    /\ cas = [t \in Threads |-> "none"]
    /\ exec_count = 0
    /\ produced = <<>>
    /\ got = [t \in Threads |-> NoValue]
    /\ aborted = FALSE

\* A plausible slip: exchange() instead of compare_exchange_strong().
exchange(cur, expected, desired) ==
    [ok |-> TRUE, new |-> desired]

\* std::atomic::compare_exchange_strong(expected, desired) on a value cur
compare_exchange_strong(cur, expected, desired) ==
    IF cur = expected THEN [ok |-> TRUE, new |-> desired]
                      ELSE [ok |-> FALSE, new |-> cur]

\* A plausible slip: waiting for "not pending" instead of "completed".
WaitPredicateStarted(s) == s # PENDING

\* the predicate of cv.wait in TaskBase::wait
WaitPredicate(s) == s = COMPLETED

\* where a thread continues when run() returns
AfterRun(t) == IF api[t] = "get" THEN "wait_lock" ELSE "done"

\* where a thread continues when wait() returns
AfterWait(t) == IF api[t] = "get" THEN "get_read" ELSE "done"

\* worker_loop: task->run()
WorkerRun(t) ==
    /\ ~aborted
    /\ t = Worker
    /\ tpc[t] = "idle"
    /\ tpc' = [tpc EXCEPT ![t] = "run_cas"]
    /\ api' = [api EXCEPT ![t] = "run"]
    /\ UNCHANGED <<state, result, mutex, cv, cas, exec_count, produced, got, aborted>>

\* Future::get(): task->run() first
FutureGet(t) ==
    /\ ~aborted
    /\ t \in Callers
    /\ tpc[t] = "idle"
    /\ tpc' = [tpc EXCEPT ![t] = "run_cas"]
    /\ api' = [api EXCEPT ![t] = "get"]
    /\ UNCHANGED <<state, result, mutex, cv, cas, exec_count, produced, got, aborted>>

\* Future::wait(): task->wait()
FutureWait(t) ==
    /\ ~aborted
    /\ t \in Callers
    /\ tpc[t] = "idle"
    /\ tpc' = [tpc EXCEPT ![t] = "wait_lock"]
    /\ api' = [api EXCEPT ![t] = "wait"]
    /\ UNCHANGED <<state, result, mutex, cv, cas, exec_count, produced, got, aborted>>

\* TaskBase::run: the compare-and-swap PENDING -> RUNNING
RunCas(t) ==
    /\ ~aborted
    /\ tpc[t] = "run_cas"
    /\ LET r == compare_exchange_strong(state, PENDING, RUNNING) IN
          /\ state' = r.new
          /\ cas' = [cas EXCEPT ![t] = IF r.ok THEN "won" ELSE "lost"]
          /\ tpc' = [tpc EXCEPT ![t] = IF r.ok THEN "run_execute" ELSE AfterRun(t)]
    /\ UNCHANGED <<result, mutex, cv, api, exec_count, produced, got, aborted>>

\* Task<T>::execute: result = func(), func returns v
Execute(t) ==
    /\ ~aborted
    /\ tpc[t] = "run_execute"
    /\ \E v \in TaskValues :
          /\ result' = v
          /\ produced' = Append(produced, v)
    /\ exec_count' = exec_count + 1
    /\ tpc' = [tpc EXCEPT ![t] = "run_lock"]
    /\ UNCHANGED <<state, mutex, cv, api, cas, got, aborted>>

\* Task<T>::execute: func() throws.  Nothing in execute() or run() catches:
\* the exception leaves run().  On the pool thread it leaves worker_loop and
\* the thread function, which is std::terminate; in Future::get() it
\* propagates to the caller of get().
ExecuteThrows(t) ==
    /\ ~aborted
    /\ tpc[t] = "run_execute"
    /\ exec_count' = exec_count + 1
    /\ tpc' = [tpc EXCEPT ![t] = "unwound"]
    /\ aborted' = (t = Worker)
    /\ UNCHANGED <<state, result, mutex, cv, api, cas, produced, got>>

\* TaskBase::run: std::lock_guard<std::mutex> lock(mutex)
RunLock(t) ==
    /\ ~aborted
    /\ tpc[t] = "run_lock"
    /\ mutex = FreeMutex
    /\ mutex' = t
    /\ tpc' = [tpc EXCEPT ![t] = "run_store"]
    /\ UNCHANGED <<state, result, cv, api, cas, exec_count, produced, got, aborted>>

\* TaskBase::run: state = TaskState::COMPLETED
RunStore(t) ==
    /\ ~aborted
    /\ tpc[t] = "run_store"
    /\ state' = COMPLETED
    /\ tpc' = [tpc EXCEPT ![t] = "run_unlock"]
    /\ UNCHANGED <<result, mutex, cv, api, cas, exec_count, produced, got, aborted>>

\* TaskBase::run: end of the lock_guard scope
RunUnlock(t) ==
    /\ ~aborted
    /\ tpc[t] = "run_unlock"
    /\ mutex' = FreeMutex
    /\ tpc' = [tpc EXCEPT ![t] = "run_notify"]
    /\ UNCHANGED <<state, result, cv, api, cas, exec_count, produced, got, aborted>>

\* A plausible slip: the notification is forgotten.
NotifyNone(waiting) == waiting

\* std::condition_variable::notify_all: the threads left blocked afterwards
notify_all(waiting) == {}

\* TaskBase::run: cv.notify_all()
RunNotify(t) ==
    /\ ~aborted
    /\ tpc[t] = "run_notify"
    /\ cv' = notify_all(cv)
    /\ tpc' = [u \in Threads |->
                 IF u = t THEN AfterRun(t)
                 ELSE IF u \in cv /\ u \notin notify_all(cv) THEN "wait_lock"
                 ELSE tpc[u]]
    /\ UNCHANGED <<state, result, mutex, api, cas, exec_count, produced, got, aborted>>

\* TaskBase::wait: std::unique_lock<std::mutex> lock(mutex), and the
\* re-acquisition of the mutex when cv.wait wakes up
WaitLock(t) ==
    /\ ~aborted
    /\ tpc[t] = "wait_lock"
    /\ mutex = FreeMutex
    /\ mutex' = t
    /\ tpc' = [tpc EXCEPT ![t] = "wait_check"]
    /\ UNCHANGED <<state, result, cv, api, cas, exec_count, produced, got, aborted>>

\* TaskBase::wait: cv.wait(lock, pred) evaluates pred with the mutex held;
\* if it is false the thread releases the mutex and blocks, atomically
WaitCheck(t) ==
    /\ ~aborted
    /\ tpc[t] = "wait_check"
    /\ IF WaitPredicate(state)
          THEN /\ tpc' = [tpc EXCEPT ![t] = "wait_unlock"]
               /\ UNCHANGED <<mutex, cv>>
          ELSE /\ mutex' = FreeMutex
               /\ cv' = cv \cup {t}
               /\ tpc' = [tpc EXCEPT ![t] = "wait_blocked"]
    /\ UNCHANGED <<state, result, api, cas, exec_count, produced, got, aborted>>

\* std::condition_variable::wait may wake up spuriously
SpuriousWake(t) ==
    /\ ~aborted
    /\ tpc[t] = "wait_blocked"
    /\ t \in cv
    /\ cv' = cv \ {t}
    /\ tpc' = [tpc EXCEPT ![t] = "wait_lock"]
    /\ UNCHANGED <<state, result, mutex, api, cas, exec_count, produced, got, aborted>>

\* TaskBase::wait: the unique_lock goes out of scope, wait() returns
WaitUnlock(t) ==
    /\ ~aborted
    /\ tpc[t] = "wait_unlock"
    /\ mutex' = FreeMutex
    /\ tpc' = [tpc EXCEPT ![t] = AfterWait(t)]
    /\ UNCHANGED <<state, result, cv, api, cas, exec_count, produced, got, aborted>>

\* Future::get: return *task->result.  Dereferencing an empty optional is
\* undefined behaviour: any value may come back.
GetRead(t) ==
    /\ ~aborted
    /\ tpc[t] = "get_read"
    /\ \E v \in (IF result = nullopt THEN TaskValues \cup {nullopt} ELSE {result}) :
          got' = [got EXCEPT ![t] = v]
    /\ tpc' = [tpc EXCEPT ![t] = "done"]
    /\ UNCHANGED <<state, result, mutex, cv, api, cas, exec_count, produced, aborted>>

(***************************************************************************)
(* Part 2: the register VM (vm/src/vm.cpp)                                 *)
(***************************************************************************)
VARIABLES
    vm_status,          \* where DoofVM::run is: "constructed", "running",
                        \* "halted", "returned", "error" (an exception left
                        \* run) or "crashed" (undefined behaviour ended it)
    call_stack,         \* DoofVM::call_stack
    code,               \* the instruction array handed to run
    constant_pool,      \* the constant pool handed to run
    lambdas,            \* the Lambda objects on the heap, by identity
    arrays,             \* the Array objects on the heap, by identity
    main_return_value_, \* DoofVM::main_return_value_
    call_sites,         \* for every frame but the first, the ip of the
                        \* CALL / INVOKE_LAMBDA that pushed it
    reg_trace           \* the register accesses of the last instruction:
                        \* [size |-> register count of the frame, idx |-> index]

vmVars == <<vm_status, call_stack, code, constant_pool, lambdas, arrays,
            main_return_value_, call_sites, reg_trace>>

VARIABLES
    globals_,           \* DoofVM::globals_, slots 0 .. size-1
    global_count,       \* the global_count argument of the last run()
    run_count,          \* how many times run() has been called on this VM
    host_access         \* the call of get_global / set_global a thread of the
                        \* embedding host is in the middle of, if any

VARIABLES
    objects,            \* the Object nodes NEW_OBJECT made, by identity
    sets,               \* the Set and IntSet nodes, by identity: the elements
                        \* in insertion order
    maps,               \* the Map and IntMap nodes, by identity: the entries
                        \* in key order (std::map)
    iterators,          \* the Iterator nodes, by identity
    yielded             \* for every iterator, the values ITER_VALUE returned

VARIABLES
    extern_classes_,    \* DoofVM::extern_classes_: class name -> class_idx of
                        \* its ExternClassInfo (one handle per name)
    next_negative_class_idx_ \* DoofVM::next_negative_class_idx_

globalVars == <<globals_, global_count, run_count>>
containerVars == <<objects, sets, maps, iterators, yielded>>
externVars == <<extern_classes_, next_negative_class_idx_>>
heapVars == <<globalVars, host_access, containerVars, externVars>>

\* StackFrame(int num_registers = 256), DoofVM::DoofVM and INVOKE_LAMBDA
DefaultRegisters == 256
\* INVOKE_LAMBDA copies at most this many arguments
LambdaArgLimit == 16

\* Value: the variants the modelled opcodes produce
Null == [t |-> "Null", v |-> 0]
make_int(i) == [t |-> "Int", v |-> i]
make_lambda(id) == [t |-> "Lambda", v |-> id]
make_array(id) == [t |-> "Array", v |-> id]
make_bool(b) == [t |-> "Bool", v |-> IF b THEN 1 ELSE 0]
make_object(id) == [t |-> "Object", v |-> id]
make_set(id) == [t |-> "Set", v |-> id]
make_int_set(id) == [t |-> "IntSet", v |-> id]
make_map(id) == [t |-> "Map", v |-> id]
make_int_map(id) == [t |-> "IntMap", v |-> id]
make_iterator(id) == [t |-> "Iterator", v |-> id]
\* the strings of the programs, in the order of std::string's operator<; a
\* String value holds the position of its text in this table
StringTable == <<"Array::length", "Array::push", "a", "b", "no::such", "println">>
make_string(s) ==
    [t |-> "String", v |-> CHOOSE i \in 1..Len(StringTable) : StringTable[i] = s]
\* a Double holding a quiet NaN
NaN == [t |-> "NaN", v |-> 0]
\* Value::type
type(x) == IF x.t = "NaN" THEN "Double" ELSE x.t
\* Value::operator== (equality of the std::variant): the same alternative and
\* equal contents; pointers compare by address, doubles by IEEE-754
ValueEquals(x, y) == x = y /\ x.t # "NaN"

\* StackFrame::StackFrame(num_registers): registers are 0 .. num_registers-1
StackFrame(num_registers) ==
    [registers |-> [i \in 0..(num_registers - 1) |-> Null],
     instruction_pointer |-> 0,
     function_index |-> -1]

\* std::vector<Value>::size() of a frame's registers
RegCount(frame) == Cardinality(DOMAIN frame.registers)

\* Instruction(op, a, b, c)
Instruction(op, a, b, c) == [opcode |-> op, a |-> a, b |-> b, c |-> c]

\* Instruction::with_reg_imm16
with_reg_imm16(op, reg, imm) ==
    LET u == imm % 65536 IN Instruction(op, reg, u \div 256, u % 256)

\* Instruction::uimm16
uimm16(instr) == instr.b * 256 + instr.c

\* Instruction::imm16 (sign-extended)
imm16(instr) ==
    LET val == instr.b * 256 + instr.c IN
    IF val >= 32768 THEN val - 65536 ELSE val

\* constant pool entries: FunctionMetadata objects and strings
FunctionMetadata(codeIndex, registerCount, parameterCount) ==
    [kind |-> "function", name |-> "", codeIndex |-> codeIndex,
     registerCount |-> registerCount, parameterCount |-> parameterCount]
StringConstant(s) ==
    [kind |-> "string", name |-> s, codeIndex |-> 0,
     registerCount |-> 0, parameterCount |-> 0]
\* a ClassMetadata object: fields[1] is the field count
ClassMetadata(name, fieldCount) ==
    [kind |-> "class", name |-> name, codeIndex |-> 0,
     registerCount |-> 0, parameterCount |-> 0, fieldCount |-> fieldCount]
\* a constant that is a plain Value
ValueConstant(value) ==
    [kind |-> "value", name |-> "", codeIndex |-> 0,
     registerCount |-> 0, parameterCount |-> 0, value |-> value]

\* the extern functions the constructor registers that the model runs
extern_functions == {"println", "Array::push", "Array::length"}

\* DoofVM::current_frame
current_frame == call_stack[Len(call_stack)]
\* the local ip of the interpreter loop (kept in the top frame here)
CurrentIp == current_frame.instruction_pointer
\* const Instruction &instr = code[ip]; the safe build never reads outside
\* the array, where the read would find whatever follows it in memory
Fetch ==
    IF CurrentIp + 1 \in DOMAIN code THEN code[CurrentIp + 1]
    ELSE Instruction("HALT", 0, 0, 0)

\* the ip check with the lower bound forgotten
ip_below_end(ip) == ip < Len(code)
\* the ip check at the top of the loop: !(ip < 0 || ip >= code_size)
ip_in_code(ip) == ip >= 0 /\ ip < Len(code)

\* the interpreter is about to execute an instruction
AtInstruction ==
    /\ vm_status = "running"
    /\ call_stack # <<>>
    /\ ip_in_code(CurrentIp)
AtOpcode(op) == AtInstruction /\ Fetch.opcode = op

\* DoofVM::validate_register
validate_register(reg) ==
    /\ call_stack # <<>>
    /\ reg < RegCount(current_frame)

\* DoofVM::validate_constant_index
validate_constant_index(index) ==
    index >= 0 /\ index < Len(constant_pool)

\* constant_pool[index] (0-based)
Constant(index) == constant_pool[index + 1]

\* one access to register idx of a frame
Access(frame, idx) == [size |-> RegCount(frame), idx |-> idx]

\* the top frame with register reg set to val and ip advanced by one
WriteAndAdvance(reg, val) ==
    [call_stack EXCEPT ![Len(call_stack)] =
        [@ EXCEPT !.registers = [@ EXCEPT ![reg] = val],
                  !.instruction_pointer = @ + 1]]

\* an exception leaves run(): nothing is unwound, run() is over
Throw ==
    /\ vm_status' = "error"
    /\ reg_trace' = {}
    /\ UNCHANGED <<call_stack, code, constant_pool, lambdas, arrays,
                   main_return_value_, call_sites>>

VMInit ==
    /\ vm_status = "constructed"
    /\ call_stack = <<StackFrame(DefaultRegisters)>>
    /\ code = <<>>
    /\ constant_pool = <<>>
    /\ lambdas = <<>>
    /\ arrays = <<>>
    /\ main_return_value_ = Null
    /\ call_sites = <<>>
    /\ reg_trace = {}

\* "Falling off the end of code": the ip check at the top of the loop
FallOffEnd ==
    /\ vm_status = "running"
    /\ call_stack # <<>>
    /\ ~ip_in_code(CurrentIp)
    /\ Throw

\* case Opcode::HALT
ExecHALT ==
    /\ AtOpcode("HALT")
    /\ vm_status' = "halted"
    /\ reg_trace' = {}
    /\ UNCHANGED <<call_stack, code, constant_pool, lambdas, arrays,
                   main_return_value_, call_sites>>

\* case Opcode::MOVE
ExecMOVE ==
    /\ AtOpcode("MOVE")
    /\ LET instr == Fetch IN
       IF ~validate_register(instr.a) \/ ~validate_register(instr.b)
       THEN Throw
       ELSE /\ call_stack' = WriteAndAdvance(instr.a, current_frame.registers[instr.b])
            /\ reg_trace' = {Access(current_frame, instr.a), Access(current_frame, instr.b)}
            /\ UNCHANGED <<vm_status, code, constant_pool, lambdas, arrays,
                           main_return_value_, call_sites>>

\* case Opcode::LOADK_INT16
ExecLOADK_INT16 ==
    /\ AtOpcode("LOADK_INT16")
    /\ LET instr == Fetch IN
       IF ~validate_register(instr.a)
       THEN Throw
       ELSE /\ call_stack' = WriteAndAdvance(instr.a, make_int(imm16(instr)))
            /\ reg_trace' = {Access(current_frame, instr.a)}
            /\ UNCHANGED <<vm_status, code, constant_pool, lambdas, arrays,
                           main_return_value_, call_sites>>

\* DoofVM::handle_array_ops, case Opcode::NEW_ARRAY
ExecNEW_ARRAY ==
    /\ AtOpcode("NEW_ARRAY")
    /\ LET instr == Fetch
           size == imm16(instr) IN
       IF ~validate_register(instr.a) \/ size < 0
       THEN Throw
       ELSE /\ arrays' = Append(arrays, [i \in 1..size |-> Null])
            /\ call_stack' = WriteAndAdvance(instr.a, make_array(Len(arrays) + 1))
            /\ reg_trace' = {Access(current_frame, instr.a)}
            /\ UNCHANGED <<vm_status, code, constant_pool, lambdas,
                           main_return_value_, call_sites>>

\* A plausible slip: the return address is the call itself.
ReturnAddressSame(ip) == ip

\* CALL / INVOKE_LAMBDA: frame.instruction_pointer = ip + 1
ReturnAddress(ip) == ip + 1

\* A plausible slip: arguments are copied to R0, R1, ... instead of R1, R2, ...
ArgTargetFromZero(i) == i

\* the callee register that receives argument i (R0 is the return slot)
ArgTarget(i) == i + 1

\* the guard of the argument copy loops of CALL and INVOKE_LAMBDA
ArgInRange(i, a, caller_size, callee_size) ==
    (a + i) < caller_size /\ (i + 1) < callee_size

\* the argument indices the copy loop of CALL / INVOKE_LAMBDA copies
CopiedArgs(a, num_args, caller, callee) ==
    {i \in 0..(num_args - 1) : ArgInRange(i, a, RegCount(caller), RegCount(callee))}

\* the callee's registers after the argument copy loop
CopyArguments(a, num_args, caller, callee) ==
    [r \in DOMAIN callee.registers |->
        LET from == {i \in CopiedArgs(a, num_args, caller, callee) : ArgTarget(i) = r} IN
        IF from # {} THEN caller.registers[a + (CHOOSE i \in from : TRUE)]
                     ELSE callee.registers[r]]

\* the register accesses of the argument copy loop
CopyAccesses(a, num_args, caller, callee) ==
    UNION {{Access(caller, a + i), Access(callee, ArgTarget(i))} :
               i \in CopiedArgs(a, num_args, caller, callee)}

\* DoofVM::push_frame followed by the stores to the new frame
PushFrame(return_address, callee) ==
    Append([call_stack EXCEPT ![Len(call_stack)].instruction_pointer = return_address],
           callee)

\* case Opcode::CALL
ExecCALL ==
    /\ AtOpcode("CALL")
    /\ LET instr == Fetch
           function_index == uimm16(instr) IN
       IF ~validate_register(instr.a) \/ ~validate_constant_index(function_index)
       THEN Throw
       ELSE IF Constant(function_index).kind # "function"
       THEN \* the return address is saved before as_object() throws
            /\ vm_status' = "error"
            /\ call_stack' = [call_stack EXCEPT ![Len(call_stack)].instruction_pointer =
                                 ReturnAddress(CurrentIp)]
            /\ reg_trace' = {}
            /\ UNCHANGED <<code, constant_pool, lambdas, arrays,
                           main_return_value_, call_sites>>
       ELSE LET func_obj == Constant(function_index)
                num_args == func_obj.parameterCount
                caller == current_frame
                pushed == [StackFrame(func_obj.registerCount) EXCEPT
                              !.instruction_pointer = func_obj.codeIndex,
                              !.function_index = function_index]
                callee == [pushed EXCEPT
                              !.registers = CopyArguments(instr.a, num_args, caller, pushed)]
            IN /\ call_stack' = PushFrame(ReturnAddress(CurrentIp), callee)
               /\ call_sites' = Append(call_sites, CurrentIp)
               /\ reg_trace' = CopyAccesses(instr.a, num_args, caller, pushed)
               /\ UNCHANGED <<vm_status, code, constant_pool, lambdas, arrays,
                              main_return_value_>>

\* case Opcode::RETURN
ExecRETURN ==
    /\ AtOpcode("RETURN")
    /\ LET instr == Fetch IN
       IF ~validate_register(instr.a)
       THEN Throw
       ELSE LET return_value == current_frame.registers[instr.a]
                popped == SubSeq(call_stack, 1, Len(call_stack) - 1)
            IN /\ IF popped # <<>>
                  THEN /\ call_stack' = [popped EXCEPT ![Len(popped)].registers[0] = return_value]
                       /\ reg_trace' = {Access(current_frame, instr.a),
                                        Access(popped[Len(popped)], 0)}
                       /\ call_sites' = SubSeq(call_sites, 1, Len(call_sites) - 1)
                       /\ UNCHANGED vm_status
                  ELSE /\ call_stack' = popped
                       /\ reg_trace' = {Access(current_frame, instr.a)}
                       /\ vm_status' = "returned"
                       /\ UNCHANGED call_sites
               /\ UNCHANGED <<code, constant_pool, lambdas, arrays, main_return_value_>>

\* DoofVM::handle_lambda_ops, case Opcode::CREATE_LAMBDA
ExecCREATE_LAMBDA ==
    /\ AtOpcode("CREATE_LAMBDA")
    /\ LET instr == Fetch
           metadata_index == uimm16(instr) IN
       IF \/ ~validate_register(instr.a)
          \/ metadata_index >= Len(constant_pool)
          \/ Constant(metadata_index).kind # "function"
       THEN Throw
       ELSE LET metadata == Constant(metadata_index)
                lambda == [code_index |-> metadata.codeIndex,
                           parameter_count |-> metadata.parameterCount,
                           captured_values |-> <<>>]
            IN /\ lambdas' = Append(lambdas, lambda)
               /\ call_stack' = WriteAndAdvance(instr.a, make_lambda(Len(lambdas) + 1))
               /\ reg_trace' = {Access(current_frame, instr.a)}
               /\ UNCHANGED <<vm_status, code, constant_pool, arrays,
                              main_return_value_, call_sites>>

\* A plausible slip: the capture replaces the captured values.
assign(vec, val) == <<val>>

\* std::vector::push_back
push_back(vec, val) == Append(vec, val)

\* DoofVM::handle_lambda_ops, case Opcode::CAPTURE_VALUE
ExecCAPTURE_VALUE ==
    /\ AtOpcode("CAPTURE_VALUE")
    /\ LET instr == Fetch IN
       IF \/ ~validate_register(instr.a)
          \/ ~validate_register(instr.b)
          \/ current_frame.registers[instr.a].t # "Lambda"
       THEN Throw
       ELSE LET id == current_frame.registers[instr.a].v IN
            /\ lambdas' = [lambdas EXCEPT ![id].captured_values =
                              push_back(@, current_frame.registers[instr.b])]
            /\ call_stack' = [call_stack EXCEPT ![Len(call_stack)].instruction_pointer = @ + 1]
            /\ reg_trace' = {Access(current_frame, instr.a), Access(current_frame, instr.b)}
            /\ UNCHANGED <<vm_status, code, constant_pool, arrays,
                           main_return_value_, call_sites>>

\* the lambda frame register that receives captured value i (0-based)
CaptureTarget(parameter_count, i) == parameter_count + 1 + i

\* the captured values INVOKE_LAMBDA copies: those whose target is in range
CopiedCaptures(lambda, lambda_frame) ==
    {i \in 0..(Len(lambda.captured_values) - 1) :
        CaptureTarget(lambda.parameter_count, i) < RegCount(lambda_frame)}

\* the smaller of two numbers (the two loop bounds of the argument copy)
Min(x, y) == IF x < y THEN x ELSE y

\* case Opcode::INVOKE_LAMBDA
ExecINVOKE_LAMBDA ==
    /\ AtOpcode("INVOKE_LAMBDA")
    /\ LET instr == Fetch IN
       IF ~validate_register(instr.b) \/ current_frame.registers[instr.b].t # "Lambda"
       THEN Throw
       ELSE LET lambda == lambdas[current_frame.registers[instr.b].v]
                calling_frame == current_frame
                pushed == [StackFrame(DefaultRegisters) EXCEPT
                              !.instruction_pointer = lambda.code_index,
                              !.function_index = -1]
                num_args == Min(lambda.parameter_count, LambdaArgLimit)
                with_args == CopyArguments(instr.a, num_args, calling_frame, pushed)
                captures == CopiedCaptures(lambda, pushed)
                lambda_registers ==
                    [r \in DOMAIN with_args |->
                        LET from == {i \in captures :
                                        CaptureTarget(lambda.parameter_count, i) = r} IN
                        IF from # {}
                        THEN lambda.captured_values[(CHOOSE i \in from : TRUE) + 1]
                        ELSE with_args[r]]
                lambda_frame == [pushed EXCEPT !.registers = lambda_registers]
            IN /\ call_stack' = PushFrame(ReturnAddress(CurrentIp), lambda_frame)
               /\ call_sites' = Append(call_sites, CurrentIp)
               /\ reg_trace' = {Access(calling_frame, instr.b)}
                               \cup CopyAccesses(instr.a, num_args, calling_frame, pushed)
                               \cup {Access(pushed, CaptureTarget(lambda.parameter_count, i)) :
                                        i \in captures}
               /\ UNCHANGED <<vm_status, code, constant_pool, lambdas, arrays,
                              main_return_value_>>

\* how many slots of the argument row the extern function reads
ExternArgsRead(func_name, arg0) ==
    IF func_name = "Array::push" /\ arg0.t = "Array" THEN 2 ELSE 1

\* what reading past the end of a register vector may yield
UBValues == {Null, make_int(-1)}

\* args[k] of the row that starts at register a of a frame; outside the
\* frame's registers the read is undefined and yields garbage
ArgRow(frame, a, k, garbage) ==
    IF (a + k) < RegCount(frame) THEN frame.registers[a + k] ELSE garbage

\* the value the extern function returns
ExternResult(func_name, arg0) ==
    IF func_name = "Array::length"
    THEN (IF arg0.t = "Array" THEN make_int(Len(arrays[arg0.v])) ELSE make_int(0))
    ELSE Null

\* the arrays after the extern function ran
ExternArrays(func_name, arg0, arg1) ==
    IF func_name = "Array::push" /\ arg0.t = "Array"
    THEN [arrays EXCEPT ![arg0.v] = Append(@, arg1)]
    ELSE arrays

\* case Opcode::EXTERN_CALL
ExecEXTERN_CALL ==
    /\ AtOpcode("EXTERN_CALL")
    /\ LET instr == Fetch
           name_index == uimm16(instr) IN
       IF \/ ~validate_register(instr.a)
          \/ ~validate_constant_index(name_index)
          \/ Constant(name_index).kind # "string"
          \/ Constant(name_index).name \notin extern_functions
       THEN Throw
       ELSE LET func_name == Constant(name_index).name
                frame == current_frame
                arg0 == frame.registers[instr.a]
                nread == ExternArgsRead(func_name, arg0)
            IN \E garbage \in UBValues :
                 LET arg1 == ArgRow(frame, instr.a, 1, garbage) IN
                 /\ \/ /\ arrays' = ExternArrays(func_name, arg0, arg1)
                       /\ call_stack' = WriteAndAdvance(0, ExternResult(func_name, arg0))
                       /\ reg_trace' = {Access(frame, instr.a + k) : k \in 0..(nread - 1)}
                                       \cup {Access(frame, 0)}
                       /\ UNCHANGED vm_status
                    \/ \* the out-of-range read faults
                       /\ \E k \in 0..(nread - 1) : (instr.a + k) >= RegCount(frame)
                       /\ vm_status' = "crashed"
                       /\ reg_trace' = {Access(frame, instr.a + k) : k \in 0..(nread - 1)}
                       /\ UNCHANGED <<arrays, call_stack>>
                 /\ UNCHANGED <<code, constant_pool, lambdas,
                                main_return_value_, call_sites>>

(***************************************************************************)
(* The programs run() is given                                             *)
(***************************************************************************)
\* largest parameterCount of a function constant
MaxParams == 2
\* largest registerCount of a function constant
MaxRegisters == 3
\* largest register operand the programs use in small frames
MaxOperand == 2

ParamCounts == 0..MaxParams
RegCounts == 0..MaxRegisters
Operands == 0..MaxOperand
\* argument bases of the CALL in the main frame: small ones and one whose
\* argument row ends at the last register of the frame
ArgBases == {0, 1, DefaultRegisters - 2}

\* the constant pool layout the programs share
K_println == 0
K_push == K_println + 1
K_length == K_push + 1
K_F == K_length + 1
K_G == K_F + 1
K_L == K_G + 1
K_missing == K_L + 1

Constants(F, G, L) ==
    <<StringConstant("println"), StringConstant("Array::push"),
      StringConstant("Array::length"), F, G, L, StringConstant("no::such")>>

LOADK_INT16(a, imm) == with_reg_imm16("LOADK_INT16", a, imm)
MOVE(a, b) == Instruction("MOVE", a, b, 0)
NEW_ARRAY(a, size) == with_reg_imm16("NEW_ARRAY", a, size)
CALL(a, k) == with_reg_imm16("CALL", a, k)
RETURN(a) == Instruction("RETURN", a, 0, 0)
HALT == Instruction("HALT", 0, 0, 0)
EXTERN_CALL(a, k) == with_reg_imm16("EXTERN_CALL", a, k)
CREATE_LAMBDA(a, k) == with_reg_imm16("CREATE_LAMBDA", a, k)
CAPTURE_VALUE(a, b) == Instruction("CAPTURE_VALUE", a, b, 0)
INVOKE_LAMBDA(a, b) == Instruction("INVOKE_LAMBDA", a, b, 0)

\* main calls F(P params, R registers) with arguments at a; F calls G or
\* loads a value, then returns register ra; main returns or halts
CallPrograms ==
    {[code |-> <<LOADK_INT16(a, 11), LOADK_INT16(a + 1, 12), CALL(a, K_F), last,
                 first, RETURN(ra),
                 MOVE(0, 1), RETURN(0)>>,
      constants |-> Constants(FunctionMetadata(4, R, P), FunctionMetadata(6, 2, 1),
                              FunctionMetadata(6, 2, 1)),
      entry_point |-> 0] :
        a \in ArgBases, P \in ParamCounts, R \in RegCounts, ra \in Operands,
        last \in {RETURN(0), HALT},
        first \in {CALL(a2, K_G) : a2 \in Operands} \cup {LOADK_INT16(0, 21)}}

\* main calls F, which creates a lambda, captures register 1, mutates it,
\* captures or invokes again and returns the lambda; main invokes it after
\* F's frame is gone; the lambda's code index is its body or the end of the
\* code
LambdaPrograms ==
    {[code |-> <<CALL(1, K_F), LOADK_INT16(a, 31), INVOKE_LAMBDA(a, 0), HALT,
                 CREATE_LAMBDA(0, K_L), LOADK_INT16(1, v), CAPTURE_VALUE(0, 1),
                 mutate, second, RETURN(0),
                 MOVE(0, PL + 1), RETURN(0)>>,
      constants |-> Constants(FunctionMetadata(4, MaxRegisters + 1, 0),
                              FunctionMetadata(10, 2, 1),
                              FunctionMetadata(body, 2, PL)),
      entry_point |-> 0] :
        a \in Operands \ {0}, v \in {41, 42}, PL \in ParamCounts,
        body \in {10, 12},
        mutate \in {LOADK_INT16(1, 43), MOVE(1, 0), NEW_ARRAY(1, 0)},
        second \in {CAPTURE_VALUE(0, 1), INVOKE_LAMBDA(2, 0), CAPTURE_VALUE(1, 0)}}

\* main builds an array and a number and calls F(2 params, R registers),
\* which makes an extern call with its argument row at register a
ExternPrograms ==
    {[code |-> <<NEW_ARRAY(1, 0), LOADK_INT16(2, 11), CALL(1, K_F),
                 EXTERN_CALL(1, K_length), HALT,
                 EXTERN_CALL(a, k), RETURN(0)>>,
      constants |-> Constants(FunctionMetadata(5, R, 2), FunctionMetadata(5, 2, 1),
                              FunctionMetadata(5, 2, 1)),
      entry_point |-> 0] :
        a \in Operands, R \in RegCounts,
        k \in {K_println, K_push, K_length, K_F, K_missing, K_missing + 1}}

\* main creates a lambda with P parameters, P at or just above the limit of
\* the argument copy loop, fills the first and the seventeenth register of
\* the argument row and invokes the lambda, which returns its register 17
WideLambdaPrograms ==
    {[code |-> <<CREATE_LAMBDA(0, K_L), LOADK_INT16(1, 50),
                 LOADK_INT16(1 + LambdaArgLimit, 51), INVOKE_LAMBDA(1, 0), HALT,
                 MOVE(0, LambdaArgLimit + 1), RETURN(0)>>,
      constants |-> Constants(FunctionMetadata(5, 2, 1), FunctionMetadata(5, 2, 1),
                              FunctionMetadata(5, 2, PL)),
      entry_point |-> 0] :
        PL \in {LambdaArgLimit, LambdaArgLimit + 1}}

\* the largest global_count of a program
MaxGlobals == 2
\* how often run() is called on one VM
MaxRuns == 2

GET_GLOBAL(a, index) == with_reg_imm16("GET_GLOBAL", a, index)
SET_GLOBAL(a, index) == with_reg_imm16("SET_GLOBAL", a, index)

\* a program run with global_count gc that stores 7 into global index and
\* reads it back
GlobalPrograms ==
    {[code |-> <<LOADK_INT16(1, 7), SET_GLOBAL(1, index), GET_GLOBAL(2, index), HALT>>,
      constants |-> <<>>,
      entry_point |-> 0,
      global_count |-> gc] :
        gc \in 0..MaxGlobals, index \in 0..(MaxGlobals - 1)}

LOADK(a, k) == with_reg_imm16("LOADK", a, k)
NEW_OBJECT(a, k) == with_reg_imm16("NEW_OBJECT", a, k)
EQ_OBJECT(a, b, c) == Instruction("EQ_OBJECT", a, b, c)
NEW_SET(a) == Instruction("NEW_SET", a, 0, 0)
ADD_SET(a, b, c) == Instruction("ADD_SET", a, b, c)
SIZE_SET(a, b) == Instruction("SIZE_SET", a, b, 0)

\* the constant pool of the programs below: the shared layout, then a class
\* with one field and a NaN
K_C == K_missing + 1
K_NaN == K_C + 1
HeapConstants ==
    Constants(FunctionMetadata(0, 2, 1), FunctionMetadata(0, 2, 1),
              FunctionMetadata(0, 2, 1))
        \o <<ClassMetadata("a", 1), ValueConstant(NaN)>>

\* the ways a program puts a fresh node of an identity-compared variant into
\* register r
NewNode(r) ==
    {NEW_OBJECT(r, K_C), NEW_ARRAY(r, 0), NEW_SET(r), CREATE_LAMBDA(r, K_L)}

\* two nodes are made, the second register is or is not made an alias of the
\* first, and the two are compared
EqualityPrograms ==
    {[code |-> <<first, second, alias, EQ_OBJECT(3, 1, 2), HALT>>,
      constants |-> HeapConstants,
      entry_point |-> 0] :
        first \in NewNode(1), second \in NewNode(2),
        alias \in {MOVE(2, 1), MOVE(0, 0)}}

\* the ways a program puts a value to add into register r
LoadValue(r) ==
    {LOADK_INT16(r, 7), LOADK(r, K_println), LOADK(r, K_NaN), NEW_ARRAY(r, 0)}

\* a set gets one value, or none, then the value x twice, and its size is
\* taken after each of the two
SetPrograms ==
    {[code |-> <<NEW_SET(1), other, x, ADD_SET(3, 1, 2), SIZE_SET(4, 1),
                 ADD_SET(5, 1, 2), SIZE_SET(6, 1), HALT>>,
      constants |-> HeapConstants,
      entry_point |-> 0] :
        other \in {LOADK_INT16(2, 7), ADD_SET(0, 1, 1), MOVE(0, 0)},
        x \in LoadValue(2)}

NEW_SET_INT(a) == Instruction("NEW_SET_INT", a, 0, 0)
ADD_SET_INT(a, b, c) == Instruction("ADD_SET_INT", a, b, c)
NEW_MAP(a) == Instruction("NEW_MAP", a, 0, 0)
NEW_MAP_INT(a) == Instruction("NEW_MAP_INT", a, 0, 0)
SET_MAP(a, b, c) == Instruction("SET_MAP", a, b, c)
SET_MAP_INT(a, b, c) == Instruction("SET_MAP_INT", a, b, c)
JMP(offset) == with_reg_imm16("JMP", 0, offset)
JMP_IF_FALSE(a, offset) == with_reg_imm16("JMP_IF_FALSE", a, offset)
JMP_IF_TRUE(a, offset) == with_reg_imm16("JMP_IF_TRUE", a, offset)
ITER_INIT(a, b) == Instruction("ITER_INIT", a, b, 0)
ITER_NEXT(a, b) == Instruction("ITER_NEXT", a, b, 0)
ITER_VALUE(a, b) == Instruction("ITER_VALUE", a, b, 0)
ITER_KEY(a, b) == Instruction("ITER_KEY", a, b, 0)

\* how many times a program puts an element into the container it iterates
MaxElems == 2

ContainerKinds == {"Array", "Set", "IntSet", "Map", "IntMap"}

\* the instruction that makes an empty container of a kind in register 1
NewContainer(kind) ==
    CASE kind = "Array" -> NEW_ARRAY(1, 0)
      [] kind = "Set" -> NEW_SET(1)
      [] kind = "IntSet" -> NEW_SET_INT(1)
      [] kind = "Map" -> NEW_MAP(1)
      [] kind = "IntMap" -> NEW_MAP_INT(1)

\* the instruction pairs that put an element into the container in register
\* 1 (a map entry's value is register 3 or the key), and a pair that puts none
Fills(kind) ==
    {<<MOVE(0, 0), MOVE(0, 0)>>} \cup
    (CASE kind = "Array" ->
            {<<LOADK_INT16(2, v), EXTERN_CALL(1, K_push)>> : v \in {7, 8}}
       [] kind = "Set" ->
            {<<LOADK_INT16(2, v), ADD_SET(0, 1, 2)>> : v \in {7, 8}}
       [] kind = "IntSet" ->
            {<<LOADK_INT16(2, v), ADD_SET_INT(0, 1, 2)>> : v \in {7, 8}}
       [] kind = "Map" ->
            {<<LOADK(2, k), SET_MAP(1, 2, 2)>> : k \in {K_println, K_push}}
       [] kind = "IntMap" ->
            {<<LOADK_INT16(2, v), SET_MAP_INT(1, 2, 3)>> : v \in {7, 8}})

\* the instruction pairs of fill, one after the other
RECURSIVE FillCode(_, _)
FillCode(fill, n) ==
    IF n = 0 THEN <<>> ELSE FillCode(fill, n - 1) \o fill[n]

\* ITER_INIT on register 1; while ITER_NEXT yields true do ITER_VALUE
IterLoop ==
    <<ITER_INIT(4, 1), ITER_NEXT(5, 4), JMP_IF_FALSE(5, 3), ITER_VALUE(6, 4),
      JMP(-3), HALT>>

\* a container is made and filled, then iterated to the end
IterPrograms ==
    {[code |-> <<LOADK_INT16(3, 9), NewContainer(kind)>>
                   \o FillCode(fill, MaxElems) \o IterLoop,
      constants |-> HeapConstants,
      entry_point |-> 0] :
        <<kind, fill>> \in UNION {{<<k, f>> : f \in [1..MaxElems -> Fills(k)]} :
                                    k \in ContainerKinds}}

\* ITER_VALUE into register 6, n times
RECURSIVE Values(_)
Values(n) == IF n = 0 THEN <<>> ELSE Append(Values(n - 1), ITER_VALUE(6, 4))

\* a container is made and filled with at most MaxElems elements, then
\* ITER_VALUE is executed up to MaxElems times without asking ITER_NEXT, and
\* then ITER_VALUE or ITER_KEY once more
OverrunPrograms ==
    {[code |-> <<LOADK_INT16(3, 9), NewContainer(kind)>>
                   \o FillCode(fill, MaxElems) \o <<ITER_INIT(4, 1)>>
                   \o Values(n) \o <<last, HALT>>,
      constants |-> HeapConstants,
      entry_point |-> 0] :
        <<kind, fill>> \in UNION {{<<k, f>> : f \in [1..MaxElems -> Fills(k)]} :
                                    k \in ContainerKinds},
        n \in 0..MaxElems,
        last \in {ITER_VALUE(6, 4), ITER_KEY(5, 4)}}

\* the farthest a jump of the jump programs goes, in either direction
MaxJump == 2

K_true == K_NaN + 1
K_false == K_true + 1
JumpConstants ==
    HeapConstants \o <<ValueConstant(make_bool(TRUE)), ValueConstant(make_bool(FALSE))>>

\* a condition is loaded, one of the three jumps is made with an offset that
\* leads before, inside or after the array, and the code ends with or without
\* a HALT
JumpPrograms ==
    {[code |-> <<LOADK(1, k), jump>> \o tail, constants |-> JumpConstants,
      entry_point |-> 0] :
        k \in {K_true, K_false},
        jump \in UNION {{JMP(offset), JMP_IF_TRUE(1, offset), JMP_IF_FALSE(1, offset)} :
                            offset \in (-MaxJump)..MaxJump},
        tail \in {<<>>, <<HALT>>}}

\* main loads a value, calls F(1 parameter, 2 registers) and halts or
\* returns; F halts, returns, or reads a register it does not have: the run
\* ends by HALT at depth 1 or 2, by the stack emptying, or by a runtime error
RerunPrograms ==
    {[code |-> <<LOADK_INT16(1, 11), CALL(1, K_F), last,
                 inF, RETURN(0)>>,
      constants |-> Constants(FunctionMetadata(3, 2, 1), FunctionMetadata(3, 2, 1),
                              FunctionMetadata(3, 2, 1)),
      entry_point |-> 0] :
        last \in {HALT, RETURN(1)},
        inF \in {HALT, LOADK_INT16(0, 21), MOVE(0, MaxRegisters)}}

Programs ==
    CallPrograms \cup LambdaPrograms \cup ExternPrograms \cup WideLambdaPrograms
        \cup GlobalPrograms \cup EqualityPrograms \cup SetPrograms
        \cup IterPrograms \cup JumpPrograms \cup OverrunPrograms
        \cup RerunPrograms

\* DoofVM::find_constant_pool_class_idx on a pool: the 0-based index of the
\* first ClassMetadata constant of that name, or -1
find_constant_pool_class_idx(pool, class_name) ==
    LET matches == {i \in DOMAIN pool :
                       pool[i].kind = "class" /\ pool[i].name = class_name} IN
    IF matches = {} THEN -1
    ELSE (CHOOSE i \in matches : \A j \in matches : i <= j) - 1

\* DoofVM::refresh_extern_class_indices against the pool run() was given:
\* a class whose name the pool holds gets that index, the others keep theirs
refresh_extern_class_indices(classes, pool) ==
    [name \in DOMAIN classes |->
        LET idx == find_constant_pool_class_idx(pool, name) IN
        IF idx >= 0 THEN idx ELSE classes[name]]

\* the global_count a program is run with (run's default is 0)
GlobalCount(p) == IF "global_count" \in DOMAIN p THEN p.global_count ELSE 0

\* DoofVM::run, "Initialize global variables": only if (global_count > 0)
\* the vector is resized and every slot set to Null
InitGlobals(globals, count) ==
    IF count > 0 THEN [i \in 0..(count - 1) |-> Null] ELSE globals

\* DoofVM::run up to the interpreter loop, for the program p: the globals,
\* a main frame if the call stack is empty, the entry point
Prologue(p) ==
    /\ code' = p.code
    /\ constant_pool' = p.constants
    /\ globals_' = InitGlobals(globals_, GlobalCount(p))
    /\ global_count' = GlobalCount(p)
    /\ run_count' = run_count + 1
    /\ LET stack == IF call_stack = <<>> THEN <<StackFrame(DefaultRegisters)>>
                    ELSE call_stack
       IN call_stack' = [stack EXCEPT ![Len(stack)].instruction_pointer = p.entry_point]
    /\ vm_status' = "running"
    /\ reg_trace' = {}
    /\ extern_classes_' = refresh_extern_class_indices(extern_classes_, p.constants)
    /\ UNCHANGED <<lambdas, arrays, main_return_value_, call_sites>>
    /\ UNCHANGED <<host_access, containerVars, next_negative_class_idx_>>

\* the first run() of a VM
RunProgram(p) ==
    /\ vm_status = "constructed"
    /\ Prologue(p)

\* DoofVM::run called directly with one of the programs
Run == \E p \in Programs : RunProgram(p)

\* run() called again on a VM whose earlier run is over (as map_set_test
\* does): one of the programs that use globals after another of them
RunAgain ==
    \E family \in {GlobalPrograms, RerunPrograms} :
        \E p \in family :
            /\ vm_status \in {"halted", "returned", "error"}
            /\ \E q \in family : code = q.code
            /\ run_count < MaxRuns
            /\ Prologue(p)

\* the class names a host registers, besides the constructor's StringBuilder
ExternNames == {"StringBuilder", "a", "b"}

\* A plausible slip: the counter is read but not decremented.
next_negative_after_same(idx) == idx
\* idx = next_negative_class_idx_--: the counter after the allocation
next_negative_after(idx) == idx - 1

\* DoofVM::register_extern_class for a name not yet registered: the index of
\* a class constant of that name in the pool of the last run, else the next
\* negative index
register_extern_class(class_name) ==
    LET idx == find_constant_pool_class_idx(constant_pool, class_name) IN
    IF idx >= 0
    THEN /\ extern_classes_' = [name \in DOMAIN extern_classes_ \cup {class_name} |->
                                    IF name = class_name THEN idx
                                    ELSE extern_classes_[name]]
         /\ UNCHANGED next_negative_class_idx_
    ELSE /\ extern_classes_' = [name \in DOMAIN extern_classes_ \cup {class_name} |->
                                    IF name = class_name THEN next_negative_class_idx_
                                    ELSE extern_classes_[name]]
         /\ next_negative_class_idx_' = next_negative_after(next_negative_class_idx_)

\* DoofVM::ensure_extern_class called by the host between runs: the handle
\* already registered under the name, else register_extern_class
ensure_extern_class ==
    \E class_name \in ExternNames :
        /\ vm_status # "running"
        /\ IF class_name \in DOMAIN extern_classes_
           THEN UNCHANGED externVars
           ELSE register_extern_class(class_name)
        /\ UNCHANGED <<vmVars, globalVars, host_access, containerVars>>

\* constant pools with class constants of the names, at different indices
ClassPools ==
    {<<ClassMetadata("a", 1)>>,
     <<StringConstant("a"), ClassMetadata("b", 1), ClassMetadata("a", 1)>>,
     <<ClassMetadata("StringBuilder", 0), ClassMetadata("b", 1)>>,
     <<StringConstant("b")>>}

ClassPrograms ==
    {[code |-> <<HALT>>, constants |-> pool, entry_point |-> 0] : pool \in ClassPools}

\* run() called by a host that registers extern classes, on a VM that is not
\* running
RunClassProgram ==
    \E p \in ClassPrograms :
        /\ vm_status # "running"
        /\ run_count < MaxRuns
        /\ Prologue(p)

\* DoofVM::get_global / set_global: the bounds check of the safe build
GlobalInBounds(index) == index \in DOMAIN globals_

\* no call of the host is in progress
NoAccess == [op |-> "none", index |-> 0, value |-> Null]

\* the host's call writes the slot the instruction is about to use, or the
\* instruction writes the slot the host's call is using: nothing orders the
\* two (get_global and set_global take no lock)
Unordered(index, writes) ==
    /\ host_access.op # "none"
    /\ host_access.index = index
    /\ writes \/ host_access.op = "set"

\* what an unlocked read of a slot can return while a write to it is in
\* progress: the old value or the one being written
ReadOutcomes(index) ==
    {globals_[index]} \cup
    (IF Unordered(index, FALSE) THEN {host_access.value} ELSE {})

\* case Opcode::GET_GLOBAL
ExecGET_GLOBAL ==
    /\ AtOpcode("GET_GLOBAL")
    /\ LET instr == Fetch IN
       IF ~validate_register(instr.a) \/ ~GlobalInBounds(uimm16(instr))
       THEN Throw
       ELSE \E value \in ReadOutcomes(uimm16(instr)) :
            /\ call_stack' = WriteAndAdvance(instr.a, value)
            /\ reg_trace' = {Access(current_frame, instr.a)}
            /\ UNCHANGED <<vm_status, code, constant_pool, lambdas, arrays,
                           main_return_value_, call_sites>>
    /\ UNCHANGED heapVars

\* case Opcode::SET_GLOBAL
ExecSET_GLOBAL ==
    /\ AtOpcode("SET_GLOBAL")
    /\ LET instr == Fetch IN
       IF ~validate_register(instr.a) \/ ~GlobalInBounds(uimm16(instr))
       THEN Throw /\ UNCHANGED globals_
       ELSE /\ globals_' = [globals_ EXCEPT ![uimm16(instr)] = current_frame.registers[instr.a]]
            /\ call_stack' = [call_stack EXCEPT ![Len(call_stack)].instruction_pointer = @ + 1]
            /\ reg_trace' = {Access(current_frame, instr.a)}
            /\ UNCHANGED <<vm_status, code, constant_pool, lambdas, arrays,
                           main_return_value_, call_sites>>
    /\ UNCHANGED <<global_count, run_count, host_access, containerVars>>

\* GET_GLOBAL / SET_GLOBAL on a slot while the host's unlocked call works on
\* the same slot: a data race on a Value, which may also end the process
GlobalRace ==
    /\ AtInstruction
    /\ Fetch.opcode \in {"GET_GLOBAL", "SET_GLOBAL"}
    /\ validate_register(Fetch.a)
    /\ GlobalInBounds(uimm16(Fetch))
    /\ Unordered(uimm16(Fetch), Fetch.opcode = "SET_GLOBAL")
    /\ vm_status' = "crashed"
    /\ reg_trace' = {}
    /\ UNCHANGED <<call_stack, code, constant_pool, lambdas, arrays,
                   main_return_value_, call_sites>>
    /\ UNCHANGED heapVars

\* a thread of the embedding host calls DoofVM::get_global or set_global
\* (public in vm.h): the bounds check passed, the access to the slot begins
HostBeginAccess ==
    \E op \in {"get", "set"}, index \in DOMAIN globals_ :
        /\ vm_status \in {"running", "halted"}
        /\ host_access = NoAccess
        /\ host_access' = [op |-> op, index |-> index,
                           value |-> IF op = "set" THEN make_int(8) ELSE Null]
        /\ UNCHANGED <<vmVars, globalVars, containerVars>>

\* the host's call completes: set_global has assigned the slot
HostEndAccess ==
    /\ host_access # NoAccess
    /\ host_access.index \in DOMAIN globals_
    /\ globals_' = IF host_access.op = "set"
                   THEN [globals_ EXCEPT ![host_access.index] = host_access.value]
                   ELSE globals_
    /\ host_access' = NoAccess
    /\ UNCHANGED <<vmVars, global_count, run_count, containerVars>>

\* the instruction wrote val to register reg after reading or writing the
\* registers in touched, and the loop goes on to the next instruction
Completes(reg, val, touched) ==
    /\ call_stack' = WriteAndAdvance(reg, val)
    /\ reg_trace' = {Access(current_frame, r) : r \in touched}
    /\ UNCHANGED <<vm_status, code, constant_pool, lambdas, arrays,
                   main_return_value_, call_sites>>

\* the Value a constant pool entry is: the metadata objects of the pool are
\* Object nodes of their own (negative identities), apart from those that
\* NEW_OBJECT makes
ConstantValue(index) ==
    LET k == Constant(index) IN
    IF k.kind = "value" THEN k.value
    ELSE IF k.kind = "string" THEN make_string(k.name)
    ELSE make_object(-(index + 1))

\* case Opcode::LOADK
ExecLOADK ==
    /\ AtOpcode("LOADK")
    /\ LET instr == Fetch IN
       IF ~validate_register(instr.a) \/ ~validate_constant_index(uimm16(instr))
       THEN Throw
       ELSE Completes(instr.a, ConstantValue(uimm16(instr)), {instr.a})
    /\ UNCHANGED heapVars

\* DoofVM::handle_object_ops, case Opcode::NEW_OBJECT
ExecNEW_OBJECT ==
    /\ AtOpcode("NEW_OBJECT")
    /\ LET instr == Fetch
           class_index == uimm16(instr) IN
       IF \/ ~validate_register(instr.a)
          \/ ~validate_constant_index(class_index)
          \/ Constant(class_index).kind # "class"
       THEN Throw /\ UNCHANGED objects
       ELSE /\ objects' = Append(objects,
                   [class_idx |-> class_index,
                    fields |-> [i \in 1..Constant(class_index).fieldCount |-> Null]])
            /\ Completes(instr.a, make_object(Len(objects) + 1), {instr.a})
    /\ UNCHANGED <<globalVars, host_access, sets, maps, iterators, yielded>>

\* Value::as_object applied to a value that holds an ObjectPtr: the pointer
as_object(x) == x

\* DoofVM::handle_comparison, case Opcode::EQ_OBJECT: as_object() is
\* std::get<ObjectPtr>, which throws for every other alternative
ExecEQ_OBJECT ==
    /\ AtOpcode("EQ_OBJECT")
    /\ LET instr == Fetch IN
       IF \/ ~validate_register(instr.a)
          \/ ~validate_register(instr.b)
          \/ ~validate_register(instr.c)
       THEN Throw
       ELSE LET x == current_frame.registers[instr.b]
                y == current_frame.registers[instr.c] IN
            IF type(x) # "Object" \/ type(y) # "Object"
            THEN Throw
            ELSE Completes(instr.a, make_bool(as_object(x) = as_object(y)),
                           {instr.a, instr.b, instr.c})
    /\ UNCHANGED heapVars

\* DoofVM::handle_set_ops, case Opcode::NEW_SET
ExecNEW_SET ==
    /\ AtOpcode("NEW_SET")
    /\ LET instr == Fetch IN
       IF ~validate_register(instr.a)
       THEN Throw /\ UNCHANGED sets
       ELSE /\ sets' = Append(sets, <<>>)
            /\ Completes(instr.a, make_set(Len(sets) + 1), {instr.a})
    /\ UNCHANGED <<globalVars, host_access, objects, maps, iterators, yielded>>

\* std::unordered_set<Value, ValueHash, ValueEqual>::insert: the value is
\* added unless an element equal to it (ValueEqual is Value::operator==) is
\* there
insert(elems, value) ==
    IF \E k \in DOMAIN elems : ValueEquals(elems[k], value)
    THEN elems
    ELSE Append(elems, value)

\* DoofVM::handle_set_ops, case Opcode::ADD_SET
ExecADD_SET ==
    /\ AtOpcode("ADD_SET")
    /\ LET instr == Fetch IN
       IF \/ ~validate_register(instr.a)
          \/ ~validate_register(instr.b)
          \/ ~validate_register(instr.c)
       THEN Throw /\ UNCHANGED sets
       ELSE LET set == current_frame.registers[instr.b]
                value == current_frame.registers[instr.c] IN
            IF type(set) # "Set"
            THEN Throw /\ UNCHANGED sets
            ELSE /\ sets' = [sets EXCEPT ![set.v] = insert(@, value)]
                 /\ Completes(instr.a,
                              make_bool(insert(sets[set.v], value) # sets[set.v]),
                              {instr.a, instr.b, instr.c})
    /\ UNCHANGED <<globalVars, host_access, objects, maps, iterators, yielded>>

\* DoofVM::handle_set_ops, case Opcode::SIZE_SET
ExecSIZE_SET ==
    /\ AtOpcode("SIZE_SET")
    /\ LET instr == Fetch IN
       IF ~validate_register(instr.a) \/ ~validate_register(instr.b)
       THEN Throw
       ELSE LET value == current_frame.registers[instr.b] IN
            IF type(value) \in {"Set", "IntSet"}
            THEN Completes(instr.a, make_int(Len(sets[value.v])), {instr.a, instr.b})
            ELSE Throw
    /\ UNCHANGED heapVars

\* DoofVM::handle_set_ops, case Opcode::NEW_SET_INT
ExecNEW_SET_INT ==
    /\ AtOpcode("NEW_SET_INT")
    /\ LET instr == Fetch IN
       IF ~validate_register(instr.a)
       THEN Throw /\ UNCHANGED sets
       ELSE /\ sets' = Append(sets, <<>>)
            /\ Completes(instr.a, make_int_set(Len(sets) + 1), {instr.a})
    /\ UNCHANGED <<globalVars, host_access, objects, maps, iterators, yielded>>

\* DoofVM::handle_set_ops, case Opcode::ADD_SET_INT
ExecADD_SET_INT ==
    /\ AtOpcode("ADD_SET_INT")
    /\ LET instr == Fetch IN
       IF \/ ~validate_register(instr.a)
          \/ ~validate_register(instr.b)
          \/ ~validate_register(instr.c)
       THEN Throw /\ UNCHANGED sets
       ELSE LET set == current_frame.registers[instr.b]
                value == current_frame.registers[instr.c] IN
            IF type(set) # "IntSet" \/ type(value) # "Int"
            THEN Throw /\ UNCHANGED sets
            ELSE /\ sets' = [sets EXCEPT ![set.v] = insert(@, value)]
                 /\ Completes(instr.a,
                              make_bool(insert(sets[set.v], value) # sets[set.v]),
                              {instr.a, instr.b, instr.c})
    /\ UNCHANGED <<globalVars, host_access, objects, maps, iterators, yielded>>

\* DoofVM::handle_map_ops, case Opcode::NEW_MAP and case Opcode::NEW_MAP_INT
ExecNEW_MAP ==
    /\ AtInstruction
    /\ Fetch.opcode \in {"NEW_MAP", "NEW_MAP_INT"}
    /\ LET instr == Fetch IN
       IF ~validate_register(instr.a)
       THEN Throw /\ UNCHANGED maps
       ELSE /\ maps' = Append(maps, <<>>)
            /\ Completes(instr.a,
                         IF instr.opcode = "NEW_MAP"
                         THEN make_map(Len(maps) + 1)
                         ELSE make_int_map(Len(maps) + 1),
                         {instr.a})
    /\ UNCHANGED <<globalVars, host_access, objects, sets, iterators, yielded>>

\* std::map::operator[] followed by the assignment: the entry of the key is
\* replaced, or a new entry takes its place in key order
assign_entry(entries, key, value) ==
    IF \E k \in DOMAIN entries : entries[k].key = key
    THEN [k \in DOMAIN entries |->
            IF entries[k].key = key THEN [key |-> key, value |-> value]
            ELSE entries[k]]
    ELSE LET below == Cardinality({k \in DOMAIN entries : entries[k].key < key}) IN
         [k \in 1..(Len(entries) + 1) |->
            IF k <= below THEN entries[k]
            ELSE IF k = below + 1 THEN [key |-> key, value |-> value]
            ELSE entries[k - 1]]

\* DoofVM::handle_map_ops, case Opcode::SET_MAP and case Opcode::SET_MAP_INT;
\* a string key is kept as its position in the order of strings
ExecSET_MAP ==
    /\ AtInstruction
    /\ Fetch.opcode \in {"SET_MAP", "SET_MAP_INT"}
    /\ LET instr == Fetch IN
       IF \/ ~validate_register(instr.a)
          \/ ~validate_register(instr.b)
          \/ ~validate_register(instr.c)
       THEN Throw /\ UNCHANGED maps
       ELSE LET map == current_frame.registers[instr.a]
                key == current_frame.registers[instr.b]
                value == current_frame.registers[instr.c] IN
            IF \/ instr.opcode = "SET_MAP" /\ (type(map) # "Map" \/ type(key) # "String")
               \/ instr.opcode = "SET_MAP_INT" /\ (type(map) # "IntMap" \/ type(key) # "Int")
            THEN Throw /\ UNCHANGED maps
            ELSE /\ maps' = [maps EXCEPT ![map.v] = assign_entry(@, key.v, value)]
                 /\ call_stack' = [call_stack EXCEPT
                        ![Len(call_stack)].instruction_pointer = @ + 1]
                 /\ reg_trace' = {Access(current_frame, r) : r \in {instr.a, instr.b, instr.c}}
                 /\ UNCHANGED <<vm_status, code, constant_pool, lambdas, arrays,
                                main_return_value_, call_sites>>
    /\ UNCHANGED <<globalVars, host_access, objects, sets, iterators, yielded>>

\* case Opcode::JMP: no check of the target
ExecJMP ==
    /\ AtOpcode("JMP")
    /\ call_stack' = [call_stack EXCEPT
           ![Len(call_stack)].instruction_pointer = @ + imm16(Fetch)]
    /\ reg_trace' = {}
    /\ UNCHANGED <<vm_status, code, constant_pool, lambdas, arrays,
                   main_return_value_, call_sites>>
    /\ UNCHANGED heapVars

\* case Opcode::JMP_IF_TRUE
ExecJMP_IF_TRUE ==
    /\ AtOpcode("JMP_IF_TRUE")
    /\ LET instr == Fetch IN
       IF ~validate_register(instr.a)
       THEN Throw
       ELSE LET condition == current_frame.registers[instr.a] IN
            IF type(condition) # "Bool"
            THEN Throw
            ELSE /\ call_stack' = [call_stack EXCEPT
                        ![Len(call_stack)].instruction_pointer =
                            IF condition.v = 1 THEN @ + imm16(instr) ELSE @ + 1]
                 /\ reg_trace' = {Access(current_frame, instr.a)}
                 /\ UNCHANGED <<vm_status, code, constant_pool, lambdas, arrays,
                                main_return_value_, call_sites>>
    /\ UNCHANGED heapVars

\* case Opcode::JMP_IF_FALSE
ExecJMP_IF_FALSE ==
    /\ AtOpcode("JMP_IF_FALSE")
    /\ LET instr == Fetch IN
       IF ~validate_register(instr.a)
       THEN Throw
       ELSE LET condition == current_frame.registers[instr.a] IN
            IF type(condition) # "Bool"
            THEN Throw
            ELSE /\ call_stack' = [call_stack EXCEPT
                        ![Len(call_stack)].instruction_pointer =
                            IF condition.v = 0 THEN @ + imm16(instr) ELSE @ + 1]
                 /\ reg_trace' = {Access(current_frame, instr.a)}
                 /\ UNCHANGED <<vm_status, code, constant_pool, lambdas, arrays,
                                main_return_value_, call_sites>>
    /\ UNCHANGED heapVars

\* the orders in which n elements can be visited
Orders(n) == {f \in [1..n -> 1..n] : \A i, j \in 1..n : f[i] = f[j] => i = j}

\* ArrayIterator / SetIterator / IntSetIterator / MapIterator / IntMapIterator
\* as made by their constructors: an array iterator holds the array and
\* index_ = 0; a set iterator holds current_ = begin(), here the position in
\* the order in which the unordered_set happens to hold its elements; a map
\* iterator holds current_ = begin(), here the key it stands at
NewIterator(collection, order) ==
    [type |-> type(collection),
     node |-> collection.v,
     index_ |-> 0,
     order |-> order,
     at_end |-> type(collection) \in {"Map", "IntMap"} /\ maps[collection.v] = <<>>,
     key |-> IF type(collection) \in {"Map", "IntMap"} /\ maps[collection.v] # <<>>
             THEN maps[collection.v][1].key ELSE 0]

\* Iterator::has_next
has_next(it) ==
    IF it.type = "Array" THEN it.index_ < Len(arrays[it.node])
    ELSE IF it.type \in {"Set", "IntSet"} THEN it.index_ < Len(it.order)
    ELSE ~it.at_end

\* throw std::runtime_error("... iterator exhausted")
Exhausted == [t |-> "Thrown", v |-> 0]

\* the map entry a map iterator stands at
current_entry(it) ==
    LET entries == maps[it.node] IN
    entries[CHOOSE k \in DOMAIN entries : entries[k].key = it.key]

\* (*array_)[index_], *current_ or current_->second; past the end the read
\* finds something that is no element, here Null
current_value(it) ==
    IF ~has_next(it) THEN Null
    ELSE IF it.type = "Array" THEN arrays[it.node][it.index_ + 1]
    ELSE IF it.type \in {"Set", "IntSet"} THEN sets[it.node][it.order[it.index_ + 1]]
    ELSE current_entry(it).value

\* A plausible slip: get_value() without the exhaustion check.
get_valueUnchecked(it) == current_value(it)

\* Iterator::get_value: if (!has_next()) throw, else the current element
get_value(it) == IF ~has_next(it) THEN Exhausted ELSE current_value(it)

\* Iterator::get_key of a MapIterator or IntMapIterator: if (!has_next())
\* throw, else current_->first (a string key is a String value, an int key an
\* Int value)
get_key(it) ==
    IF ~has_next(it) THEN Exhausted
    ELSE [t |-> IF it.type = "Map" THEN "String" ELSE "Int", v |-> current_entry(it).key]

\* A plausible slip: advance() steps over two elements.
advanceTwice(it) ==
    IF ~has_next(it) THEN it
    ELSE IF it.type \in {"Array", "Set", "IntSet"} THEN [it EXCEPT !.index_ = @ + 2]
    ELSE [it EXCEPT !.at_end = TRUE]

\* Iterator::advance: if (has_next()) ++index_ or ++current_
advance(it) ==
    IF ~has_next(it) THEN it
    ELSE IF it.type \in {"Array", "Set", "IntSet"} THEN [it EXCEPT !.index_ = @ + 1]
    ELSE LET later == {key \in {maps[it.node][k].key : k \in DOMAIN maps[it.node]} :
                          key > it.key} IN
         IF later = {} THEN [it EXCEPT !.at_end = TRUE]
         ELSE [it EXCEPT !.key = CHOOSE key \in later : \A other \in later : key <= other]

\* DoofVM::handle_iterator_ops, case Opcode::ITER_INIT
ExecITER_INIT ==
    /\ AtOpcode("ITER_INIT")
    /\ LET instr == Fetch IN
       IF ~validate_register(instr.a) \/ ~validate_register(instr.b)
       THEN Throw /\ UNCHANGED <<iterators, yielded>>
       ELSE LET collection == current_frame.registers[instr.b] IN
            IF type(collection) \notin {"Array", "Set", "Map", "IntSet", "IntMap"}
            THEN Throw /\ UNCHANGED <<iterators, yielded>>
            ELSE \E order \in IF type(collection) \in {"Set", "IntSet"}
                              THEN Orders(Len(sets[collection.v])) ELSE {<<>>} :
                    /\ iterators' = Append(iterators, NewIterator(collection, order))
                    /\ yielded' = Append(yielded, <<>>)
                    /\ Completes(instr.a, make_iterator(Len(iterators) + 1),
                                 {instr.a, instr.b})
    /\ UNCHANGED <<globalVars, host_access, objects, sets, maps>>

\* DoofVM::handle_iterator_ops, case Opcode::ITER_NEXT: the iterator is not
\* advanced
ExecITER_NEXT ==
    /\ AtOpcode("ITER_NEXT")
    /\ LET instr == Fetch IN
       IF ~validate_register(instr.a) \/ ~validate_register(instr.b)
       THEN Throw
       ELSE LET iterator == current_frame.registers[instr.b] IN
            IF type(iterator) # "Iterator"
            THEN Throw
            ELSE Completes(instr.a, make_bool(has_next(iterators[iterator.v])),
                           {instr.a, instr.b})
    /\ UNCHANGED heapVars

\* DoofVM::handle_iterator_ops, case Opcode::ITER_VALUE: get_value(), the
\* write of the register, then advance(). With a = b the write destroys the
\* register that `iterator` refers to before advance() uses it.
ExecITER_VALUE ==
    /\ AtOpcode("ITER_VALUE")
    /\ LET instr == Fetch IN
       IF ~validate_register(instr.a) \/ ~validate_register(instr.b)
       THEN Throw /\ UNCHANGED <<iterators, yielded>>
       ELSE LET iterator == current_frame.registers[instr.b] IN
            IF type(iterator) # "Iterator" \/ get_value(iterators[iterator.v]) = Exhausted
            THEN Throw /\ UNCHANGED <<iterators, yielded>>
            ELSE \/ /\ iterators' = [iterators EXCEPT ![iterator.v] = advance(@)]
                    /\ yielded' = [yielded EXCEPT ![iterator.v] =
                                      Append(@, get_value(iterators[iterator.v]))]
                    /\ Completes(instr.a, get_value(iterators[iterator.v]),
                                 {instr.a, instr.b})
                 \/ /\ instr.a = instr.b
                    /\ vm_status' = "crashed"
                    /\ reg_trace' = {}
                    /\ UNCHANGED <<call_stack, code, constant_pool, lambdas, arrays,
                                   main_return_value_, call_sites, iterators, yielded>>
    /\ UNCHANGED <<globalVars, host_access, objects, sets, maps>>

\* DoofVM::handle_iterator_ops, case Opcode::ITER_KEY: only map iterators
\* have keys; the iterator is not advanced
ExecITER_KEY ==
    /\ AtOpcode("ITER_KEY")
    /\ LET instr == Fetch IN
       IF ~validate_register(instr.a) \/ ~validate_register(instr.b)
       THEN Throw
       ELSE LET iterator == current_frame.registers[instr.b] IN
            IF type(iterator) # "Iterator"
            THEN Throw
            ELSE IF iterators[iterator.v].type \notin {"Map", "IntMap"}
            THEN Throw
            ELSE IF get_key(iterators[iterator.v]) = Exhausted
            THEN Throw
            ELSE Completes(instr.a, get_key(iterators[iterator.v]), {instr.a, instr.b})
    /\ UNCHANGED heapVars

(***************************************************************************)
(* Part 3: the debugger (vm/src/dap.cpp, vm/src/debug.cpp and the debug     *)
(*         block of DoofVM::run), as json_runner --dap sets it up: the      *)
(*         handler thread reads requests, the first continue spawns the     *)
(*         thread that runs the VM.                                         *)
(***************************************************************************)
VARIABLES
    session,            \* DAPHandler::run: "setup", "reading" or "ended";
                        \* "destroyed" once the session thread of a remote
                        \* server has returned and destroyed the channel,
                        \* the DoofVM and the DAPHandler
    terminated_,        \* DAPHandler::terminated_
    launched_,          \* DAPHandler::launched_
    execution_started_, \* DAPHandler::execution_started_
    bytecode_,          \* DAPHandler::bytecode_, constants_, entry_point_
    handler_pc,         \* "idle", "add" inside handleSetBreakpoints or
                        \* "continue" inside handleContinue
    request_count,      \* number of requests read from the channel
    last_request,       \* the request read last
    handler_sent,       \* what the handler thread wrote for that request
    debugMode_,         \* DoofVM::debugMode_
    paused_,            \* DoofVM::paused_
    currentInstruction_, \* DoofVM::currentInstruction_
    hasDebugInfo_,      \* DebugState::hasDebugInfo_
    debugInfo_,         \* DebugState::debugInfo_ (sourceMap and files)
    breakpoints_,       \* DebugState::breakpoints_
    instructionBreakpoints_, \* DebugState::instructionBreakpoints_
    stepMode_,          \* DebugState::stepMode_
    stepOverDepth_,     \* DebugState::stepOverDepth_
    stepOutDepth_,      \* DebugState::stepOutDepth_
    lastStepLine_,      \* DebugState::lastStepLine_
    lastStepFileIndex_, \* DebugState::lastStepFileIndex_
    vm_pc,              \* position of the thread that runs the VM
    vm_sent,            \* events the VM thread wrote since it last arrived
                        \* at an instruction
    threads_spawned,    \* number of VM threads handleContinue created
    since_pause,        \* instructions executed since a pause request set
                        \* the flag (-1: no pause request is pending)
    stop_pending,       \* a stopped event was written and no continue, next,
                        \* stepIn or stepOut request was processed since
    before_request,     \* the active breakpoints as the setBreakpoints request
                        \* in progress found them ({} when none is in progress)
    nextBreakpointId_,  \* DebugState::nextBreakpointId_
    issued,             \* for every entry of breakpoints_, the id addBreakpoint
                        \* returned when it appended the entry
    calls               \* number of calls made on the breakpoint interface

handlerVars == <<session, terminated_, launched_, execution_started_, bytecode_,
                 handler_pc, request_count, last_request, handler_sent>>
debugVars == <<debugMode_, paused_, currentInstruction_, hasDebugInfo_, debugInfo_,
               breakpoints_, instructionBreakpoints_, stepMode_, stepOverDepth_,
               stepOutDepth_, lastStepLine_, lastStepFileIndex_>>
threadVars == <<vm_pc, vm_sent, threads_spawned, since_pause>>
idVars == <<nextBreakpointId_, issued, calls>>
dapVars == <<handlerVars, debugVars, threadVars, stop_pending, before_request, idVars>>

\* enum class StepMode
StepNone == "None"
StepIn == "StepIn"
StepOver == "StepOver"
StepOut == "StepOut"

\* SourceMapEntry
SourceMapEntry(instructionIndex, sourceLine, fileIndex) ==
    [instructionIndex |-> instructionIndex, sourceLine |-> sourceLine,
     sourceColumn |-> 1, fileIndex |-> fileIndex]

\* return {-1, -1, -1, -1}
NoLocation ==
    [instructionIndex |-> -1, sourceLine |-> -1, sourceColumn |-> -1, fileIndex |-> -1]

\* DebugInfo of a DebugState that was never given one
EmptyDebugInfo == [sourceMap |-> <<>>, files |-> <<>>]

\* DebugState::getInstructionFromSource
getInstructionFromSource(sourceLine, fileIndex) ==
    LET sourceMap == debugInfo_.sourceMap
        hits == {k \in 1..Len(sourceMap) :
                    /\ sourceMap[k].sourceLine = sourceLine
                    /\ sourceMap[k].fileIndex = fileIndex}
    IN IF ~hasDebugInfo_ \/ hits = {} THEN -1
       ELSE sourceMap[CHOOSE k \in hits : \A j \in hits : k <= j].instructionIndex

\* DebugState::getSourceFromInstruction
getSourceFromInstruction(instructionIndex) ==
    LET sourceMap == debugInfo_.sourceMap
        exact == {k \in 1..Len(sourceMap) :
                     sourceMap[k].instructionIndex = instructionIndex}
        before == {k \in 1..Len(sourceMap) :
                      sourceMap[k].instructionIndex <= instructionIndex}
        \* the first entry with the largest instruction index not above ours
        closest == {k \in before :
                       \A j \in before :
                          \/ sourceMap[j].instructionIndex < sourceMap[k].instructionIndex
                          \/ (sourceMap[j].instructionIndex = sourceMap[k].instructionIndex
                              /\ k <= j)}
    IN IF ~hasDebugInfo_ THEN NoLocation
       ELSE IF exact # {} THEN sourceMap[CHOOSE k \in exact : \A j \in exact : k <= j]
       ELSE IF closest # {} THEN sourceMap[CHOOSE k \in closest : TRUE]
       ELSE NoLocation

\* DebugState::shouldBreakOnStep
shouldBreakOnStep(currentInstruction, callDepth) ==
    LET currentLocation == getSourceFromInstruction(currentInstruction)
        differentLine == \/ currentLocation.sourceLine # lastStepLine_
                         \/ currentLocation.fileIndex # lastStepFileIndex_
    IN IF stepMode_ = StepNone THEN FALSE
       ELSE IF currentLocation.sourceLine = -1 THEN FALSE
       ELSE IF lastStepLine_ = -1 THEN TRUE
       ELSE IF stepMode_ = StepIn THEN differentLine
       ELSE IF stepMode_ = StepOver THEN differentLine /\ (callDepth <= stepOverDepth_)
       ELSE IF stepMode_ = StepOut THEN callDepth < stepOutDepth_
       ELSE FALSE

\* A plausible slip: the lookup never finds a breakpoint.
hasNoBreakpointAtInstruction(instructionIndex) == FALSE

\* DebugState::hasBreakpointAtInstruction
hasBreakpointAtInstruction(instructionIndex) ==
    instructionIndex \in instructionBreakpoints_

\* DebugState::updateInstructionBreakpoints
updateInstructionBreakpoints(breakpoints) ==
    {breakpoints[k].instructionIndex : k \in {j \in 1..Len(breakpoints) : breakpoints[j].enabled}}

\* A plausible slip: the breakpoints of the earlier requests are kept.
keepBreakpoints(breakpoints) == breakpoints

\* DebugState::clearBreakpoints: the breakpoint list afterwards
clearBreakpoints(breakpoints) == <<>>

\* DebugState::addBreakpoint: the breakpoint list afterwards (unchanged when
\* the line does not resolve, where the function returns -1)
addBreakpoint(breakpoints, sourceLine, fileIndex) ==
    LET instructionIndex == getInstructionFromSource(sourceLine, fileIndex) IN
    IF instructionIndex = -1 THEN breakpoints
    ELSE Append(breakpoints, [instructionIndex |-> instructionIndex,
                              sourceLine |-> sourceLine,
                              fileIndex |-> fileIndex,
                              enabled |-> TRUE])

\* number of requests the client sends in one session
MaxRequests == 3

\* a request without an arguments object (msg.raw_arguments == nullptr)
NoArguments ==
    [present |-> FALSE, source |-> <<>>, lines |-> <<>>, reference_is_number |-> TRUE]

\* the arguments of a setBreakpoints request: source.path and the lines of
\* the breakpoints array
BreakpointArguments(source_path, lines) ==
    [present |-> TRUE, source |-> source_path, lines |-> lines,
     reference_is_number |-> TRUE]

\* the arguments of a variables request: variablesReference is a JSON number
\* or some other JSON value
VariablesArguments(is_number) ==
    [present |-> TRUE, source |-> <<>>, lines |-> <<>>, reference_is_number |-> is_number]

\* the request the client sends next: seq counts the requests of the session
Request(command, arguments) ==
    [seq |-> request_count + 1, command |-> command, arguments |-> arguments]

\* the state before the first request
NoRequest == [seq |-> 0, command |-> "", arguments |-> NoArguments]

\* the message DAPHandler::sendResponse writes (message only on failure)
Response(msg, command, success, error_message) ==
    [type |-> "response", request_seq |-> msg.seq, command |-> command,
     success |-> success, message |-> IF success THEN "" ELSE error_message,
     event |-> "", detail |-> ""]

\* the message DAPHandler::sendEvent writes; detail is the reason of a
\* stopped event or the category of an output event
Event(event, detail) ==
    [type |-> "event", request_seq |-> 0, command |-> "", success |-> TRUE,
     message |-> "", event |-> event, detail |-> detail]

\* DAPHandler::sendOutput
sendOutput(category) == Event("output", category)

\* the positions of the VM thread inside DoofVM::run
RunPcs == {"top", "pause_wait", "bp_check", "bp_notify", "bp_wait",
           "step_check", "step_notify", "step_wait", "execute"}
\* the positions of a VM thread that exists and has not finished
LivePcs == RunPcs \cup {"spawned"}

\* DoofVM::getCallDepth
getCallDepth == Len(call_stack)

\* DAPHandler::run: a message was read and handed to processMessage
Received(msg) ==
    /\ session = "reading"
    /\ handler_pc = "idle"
    /\ ~terminated_
    /\ request_count < MaxRequests
    /\ request_count' = request_count + 1
    /\ last_request' = msg

\* DoofVM::resume as the handlers call it
resume ==
    /\ paused_' = FALSE
    /\ since_pause' = -1
    /\ stop_pending' = FALSE

(* paths are sequences of components *)
\* normalizePath: lexically_normal drops the "." components
normalizePath(path) == SelectSeq(path, LAMBDA c : c # ".")

\* filenameFromPath
filenameFromPath(path) == IF path = <<>> THEN <<>> ELSE <<path[Len(path)]>>

\* pathEndsWith
pathEndsWith(value, ending) ==
    /\ ending # <<>>
    /\ Len(value) >= Len(ending)
    /\ SubSeq(value, Len(value) - Len(ending) + 1, Len(value)) = ending

\* handleSetBreakpoints: the file index the source path resolves to
\* (exact or suffix match, then file name, then the single-file fallback)
ResolveFile(source_path) ==
    LET files == debugInfo_.files
        normalizedSource == normalizePath(source_path)
        matches == {idx \in 1..Len(files) :
                       LET candidate == normalizePath(files[idx]) IN
                       /\ candidate # <<>>
                       /\ \/ candidate = normalizedSource
                          \/ pathEndsWith(normalizedSource, candidate)
                          \/ pathEndsWith(candidate, normalizedSource)}
        named == {idx \in 1..Len(files) :
                     filenameFromPath(files[idx]) = filenameFromPath(normalizedSource)}
        First(S) == CHOOSE idx \in S : \A j \in S : idx <= j
    IN IF ~hasDebugInfo_ \/ source_path = <<>> \/ normalizedSource = <<>>
       THEN [fileIndexResolved |-> FALSE, fileIndex |-> 0]
       ELSE IF matches # {} THEN [fileIndexResolved |-> TRUE, fileIndex |-> First(matches) - 1]
       ELSE IF named # {} THEN [fileIndexResolved |-> TRUE, fileIndex |-> First(named) - 1]
       ELSE IF Len(files) = 1 THEN [fileIndexResolved |-> TRUE, fileIndex |-> 0]
       ELSE [fileIndexResolved |-> FALSE, fileIndex |-> 0]

(* what json_runner --dap loads *)
\* main loads a value, calls F, loads another value and ends with HALT, with
\* RETURN or with a CALL of a constant that is no function (a runtime error)
DebugPrograms ==
    {[code |-> <<LOADK_INT16(1, 11), CALL(1, K_F), LOADK_INT16(2, 12), last,
                 LOADK_INT16(0, 21), RETURN(0)>>,
      constants |-> Constants(FunctionMetadata(4, 2, 1), FunctionMetadata(4, 2, 1),
                              FunctionMetadata(4, 2, 1)),
      entry_point |-> 0] :
        last \in {HALT, RETURN(0), CALL(1, K_println)}}

\* the source files of the debug programs
SourceFiles == <<(<<"w", "main.do">>), (<<"w", "lib.do">>)>>

\* every instruction has a source line: main is lines 1..4 of main.do, F is
\* lines 10..11 of lib.do
FullSourceMap ==
    <<SourceMapEntry(0, 1, 0), SourceMapEntry(1, 2, 0), SourceMapEntry(2, 3, 0),
      SourceMapEntry(3, 4, 0), SourceMapEntry(4, 10, 1), SourceMapEntry(5, 11, 1)>>

\* only the statements have a source line: the first instructions of main
\* (its prologue and the call) have none
SparseSourceMap == <<SourceMapEntry(2, 3, 0), SourceMapEntry(4, 10, 1)>>

\* the debug program with that instruction at the end of main
DebugProgram(last) == CHOOSE p \in DebugPrograms : p.code[4] = last

\* the bytecode files: the program that halts, without debug information; the
\* program whose main returns, with the full source map; the program that
\* fails, with the sparse source map
BytecodeFiles ==
    {[program |-> DebugProgram(HALT), hasDebugInfo |-> FALSE,
      debugInfo |-> EmptyDebugInfo],
     [program |-> DebugProgram(RETURN(0)), hasDebugInfo |-> TRUE,
      debugInfo |-> [sourceMap |-> FullSourceMap, files |-> SourceFiles]],
     [program |-> DebugProgram(CALL(1, K_println)), hasDebugInfo |-> TRUE,
      debugInfo |-> [sourceMap |-> SparseSourceMap, files |-> SourceFiles]]}

\* DAPHandler::bytecode_ before setBytecode
NoBytecode == [code |-> <<>>, constants |-> <<>>, entry_point |-> 0]

DAPInit ==
    /\ session = "setup"
    /\ terminated_ = FALSE
    /\ launched_ = FALSE
    /\ execution_started_ = FALSE
    /\ bytecode_ = NoBytecode
    /\ handler_pc = "idle"
    /\ request_count = 0
    /\ last_request = NoRequest
    /\ handler_sent = <<>>
    /\ debugMode_ = FALSE
    /\ paused_ = FALSE
    /\ currentInstruction_ = 0
    /\ hasDebugInfo_ = FALSE
    /\ debugInfo_ = EmptyDebugInfo
    /\ breakpoints_ = <<>>
    /\ instructionBreakpoints_ = {}
    /\ stepMode_ = StepNone
    /\ stepOverDepth_ = -1
    /\ stepOutDepth_ = -1
    /\ lastStepLine_ = -1
    /\ lastStepFileIndex_ = -1
    /\ vm_pc = "none"
    /\ vm_sent = <<>>
    /\ threads_spawned = 0
    /\ since_pause = -1
    /\ stop_pending = FALSE
    /\ before_request = {}
    /\ nextBreakpointId_ = 1
    /\ issued = <<>>
    /\ calls = 0

\* json_runner main in DAP mode: setDebugMode and setDebugInfo when the file
\* has debug information, setDAPHandler, setBytecode, then dap.run()
Setup ==
    /\ session = "setup"
    /\ \E file \in BytecodeFiles :
          /\ bytecode_' = file.program
          /\ hasDebugInfo_' = file.hasDebugInfo
          /\ debugInfo_' = file.debugInfo
          /\ debugMode_' = file.hasDebugInfo
    /\ session' = "reading"
    /\ UNCHANGED <<terminated_, launched_, execution_started_, handler_pc,
                   request_count, last_request, handler_sent>>
    /\ UNCHANGED <<paused_, currentInstruction_, breakpoints_, instructionBreakpoints_,
                   stepMode_, stepOverDepth_, stepOutDepth_, lastStepLine_,
                   lastStepFileIndex_>>
    /\ UNCHANGED <<threadVars, vmVars>>

\* DAPChannel::readMessage returns false (EOF or reset): DAPHandler::run ends
ChannelEOF ==
    /\ session = "reading"
    /\ handler_pc = "idle"
    /\ session' = "ended"
    /\ UNCHANGED <<terminated_, launched_, execution_started_, bytecode_, handler_pc,
                   request_count, last_request, handler_sent>>
    /\ UNCHANGED <<debugVars, threadVars, vmVars>>

\* DAPHandler::handleInitialize
handleInitialize ==
    LET msg == Request("initialize", NoArguments) IN
    /\ Received(msg)
    /\ handler_sent' = <<Response(msg, "initialize", TRUE, ""), Event("initialized", "")>>
    /\ UNCHANGED <<session, terminated_, launched_, execution_started_, bytecode_,
                   handler_pc>>
    /\ UNCHANGED <<debugVars, threadVars, vmVars>>

\* DAPHandler::handleLaunch (stop_on_entry_ is stored and never read)
handleLaunch ==
    LET msg == Request("launch", NoArguments) IN
    /\ Received(msg)
    /\ IF bytecode_.code = <<>>
       THEN /\ handler_sent' = <<Response(msg, "launch", FALSE, "No bytecode loaded")>>
            /\ UNCHANGED <<launched_, debugMode_, paused_, stop_pending>>
       ELSE /\ handler_sent' = <<Response(msg, "launch", TRUE, ""),
                                 Event("process", ""), Event("stopped", "entry")>>
            /\ launched_' = TRUE
            /\ debugMode_' = TRUE
            /\ paused_' = TRUE
            /\ stop_pending' = TRUE
    /\ UNCHANGED <<session, terminated_, execution_started_, bytecode_, handler_pc>>
    /\ UNCHANGED <<currentInstruction_, hasDebugInfo_, debugInfo_, breakpoints_,
                   instructionBreakpoints_, stepMode_, stepOverDepth_, stepOutDepth_,
                   lastStepLine_, lastStepFileIndex_>>
    /\ UNCHANGED <<threadVars, vmVars>>

\* DAPHandler::handleConfigurationDone
handleConfigurationDone ==
    LET msg == Request("configurationDone", NoArguments) IN
    /\ Received(msg)
    /\ handler_sent' = <<Response(msg, "configurationDone", TRUE, "")>>
    /\ UNCHANGED <<session, terminated_, launched_, execution_started_, bytecode_,
                   handler_pc>>
    /\ UNCHANGED <<debugVars, threadVars, vmVars>>

\* DAPHandler::handleDisconnect, and the loop of DAPHandler::run seeing
\* terminated_
handleDisconnect ==
    LET msg == Request("disconnect", NoArguments) IN
    /\ Received(msg)
    /\ handler_sent' = <<Response(msg, "disconnect", TRUE, "")>>
    /\ terminated_' = TRUE
    /\ session' = "ended"
    /\ UNCHANGED <<launched_, execution_started_, bytecode_, handler_pc>>
    /\ UNCHANGED <<debugVars, threadVars, vmVars>>

\* the source paths of the setBreakpoints requests: main.do by a path that
\* needs normalising, and a file that is not in the debug information
MainPath == <<"w", ".", "main.do">>
OtherPath == <<"x", "other.do">>

\* the arguments a setBreakpoints request may carry: none, or a path with
\* lines that resolve (3) or do not (98, 99)
SetBreakpointsArguments ==
    {NoArguments, BreakpointArguments(OtherPath, <<3>>)} \cup
    {BreakpointArguments(MainPath, lines) :
        lines \in {<<3>>, <<3, 99>>, <<99, 98>>}}

\* handleSetBreakpoints: a requested line is verified when the file resolved
\* and addBreakpoint found an instruction for it
Verified(line, file) ==
    /\ hasDebugInfo_
    /\ file.fileIndexResolved
    /\ getInstructionFromSource(line, file.fileIndex) # -1

\* handleSetBreakpoints: the loop over the requested lines, as far as it
\* changes the breakpoint list
RECURSIVE addBreakpoints(_, _, _)
addBreakpoints(breakpoints, lines, file) ==
    IF lines = <<>> THEN breakpoints
    ELSE addBreakpoints(
             IF hasDebugInfo_ /\ file.fileIndexResolved
             THEN addBreakpoint(breakpoints, Head(lines), file.fileIndex)
             ELSE breakpoints,
             Tail(lines), file)

\* the number of requested lines that are not verified
Unresolved(lines, file) ==
    Cardinality({k \in 1..Len(lines) : ~Verified(lines[k], file)})

\* A plausible slip: one warning for every unresolved line.
WarnEach(unresolved) == unresolved

\* handleSetBreakpoints: the number of stderr output events of a request
\* with that many unresolved lines (warnedUnverified lets only the first
\* one through)
Warnings(unresolved) == IF unresolved > 0 THEN 1 ELSE 0

\* DAPHandler::handleSetBreakpoints up to clearBreakpoints(): a request
\* without arguments is refused before anything is cleared
handleSetBreakpoints ==
    \E arguments \in SetBreakpointsArguments :
        LET msg == Request("setBreakpoints", arguments) IN
        /\ Received(msg)
        /\ IF ~arguments.present
           THEN /\ handler_sent' = <<Response(msg, "setBreakpoints", FALSE,
                                       "No arguments provided in breakpoint request")>>
                /\ UNCHANGED <<handler_pc, breakpoints_, instructionBreakpoints_,
                               before_request, issued>>
           ELSE /\ handler_sent' = <<>>
                /\ handler_pc' = "add"
                /\ before_request' = instructionBreakpoints_
                /\ issued' = <<>>
                /\ breakpoints_' = clearBreakpoints(breakpoints_)
                /\ instructionBreakpoints_' =
                       updateInstructionBreakpoints(clearBreakpoints(breakpoints_))
        /\ UNCHANGED <<session, terminated_, launched_, execution_started_, bytecode_>>
        /\ UNCHANGED <<debugMode_, paused_, currentInstruction_, hasDebugInfo_,
                       debugInfo_, stepMode_, stepOverDepth_, stepOutDepth_,
                       lastStepLine_, lastStepFileIndex_>>
        /\ UNCHANGED <<threadVars, vmVars, nextBreakpointId_, calls>>

\* DAPHandler::handleSetBreakpoints after clearBreakpoints(): the loop over
\* the lines with its warning, then the response
handleSetBreakpointsAdd ==
    /\ handler_pc = "add"
    /\ LET msg == last_request
           file == ResolveFile(msg.arguments.source)
           lines == msg.arguments.lines
           added == addBreakpoints(breakpoints_, lines, file)
       IN /\ breakpoints_' = added
          /\ instructionBreakpoints_' = updateInstructionBreakpoints(added)
          /\ nextBreakpointId_' = nextBreakpointId_ + (Len(added) - Len(breakpoints_))
          /\ issued' = issued \o [k \in 1..(Len(added) - Len(breakpoints_)) |->
                                     nextBreakpointId_ + (k - 1)]
          /\ handler_sent' =
                 [k \in 1..Warnings(Unresolved(lines, file)) |-> sendOutput("stderr")]
                 \o <<Response(msg, "setBreakpoints", TRUE, "")>>
    /\ handler_pc' = "idle"
    /\ before_request' = {}
    /\ UNCHANGED calls
    /\ UNCHANGED <<session, terminated_, launched_, execution_started_, bytecode_,
                   request_count, last_request>>
    /\ UNCHANGED <<debugMode_, paused_, currentInstruction_, hasDebugInfo_,
                   debugInfo_, stepMode_, stepOverDepth_, stepOutDepth_,
                   lastStepLine_, lastStepFileIndex_>>
    /\ UNCHANGED <<threadVars, vmVars>>

\* A plausible slip: every continue starts a thread.
AnyContinue(started) == TRUE

\* handleContinue: if (!execution_started_)
FirstContinue(started) == ~started

\* DAPHandler::handleContinue, first statement: vm_->resume()
handleContinue ==
    LET msg == Request("continue", NoArguments) IN
    /\ Received(msg)
    /\ resume
    /\ handler_pc' = "continue"
    /\ handler_sent' = <<>>
    /\ UNCHANGED <<session, terminated_, launched_, execution_started_, bytecode_>>
    /\ UNCHANGED <<debugMode_, currentInstruction_, hasDebugInfo_, debugInfo_,
                   breakpoints_, instructionBreakpoints_, stepMode_, stepOverDepth_,
                   stepOutDepth_, lastStepLine_, lastStepFileIndex_>>
    /\ UNCHANGED <<vm_pc, vm_sent, threads_spawned, vmVars>>

\* DAPHandler::handleContinue, the rest: setStepMode(StepMode::None), the
\* response, and the start of the VM thread on the first continue
handleContinueClear ==
    /\ handler_pc = "continue"
    /\ handler_pc' = "idle"
    /\ stepMode_' = StepNone
    /\ handler_sent' = <<Response(last_request, "continue", TRUE, "")>>
    /\ IF FirstContinue(execution_started_)
       THEN /\ execution_started_' = TRUE
            /\ vm_pc' = "spawned"
            /\ threads_spawned' = threads_spawned + 1
       ELSE UNCHANGED <<execution_started_, vm_pc, threads_spawned>>
    /\ UNCHANGED <<session, terminated_, launched_, bytecode_, request_count,
                   last_request>>
    /\ UNCHANGED <<debugMode_, paused_, currentInstruction_, hasDebugInfo_, debugInfo_,
                   breakpoints_, instructionBreakpoints_, stepOverDepth_, stepOutDepth_,
                   lastStepLine_, lastStepFileIndex_>>
    /\ UNCHANGED <<vm_sent, since_pause, vmVars>>

\* handleNext / handleStepIn / handleStepOut: setStepFromLine with the source
\* location of the current instruction
setStepFromCurrent ==
    LET currentLocation == getSourceFromInstruction(currentInstruction_) IN
    /\ lastStepLine_' = currentLocation.sourceLine
    /\ lastStepFileIndex_' = currentLocation.fileIndex

\* DAPHandler::handleNext
handleNext ==
    LET msg == Request("next", NoArguments) IN
    /\ Received(msg)
    /\ setStepFromCurrent
    /\ stepMode_' = StepOver
    /\ stepOverDepth_' = getCallDepth
    /\ resume
    /\ handler_sent' = <<Response(msg, "next", TRUE, "")>>
    /\ UNCHANGED <<session, terminated_, launched_, execution_started_, bytecode_,
                   handler_pc>>
    /\ UNCHANGED <<debugMode_, currentInstruction_, hasDebugInfo_, debugInfo_,
                   breakpoints_, instructionBreakpoints_, stepOutDepth_>>
    /\ UNCHANGED <<vm_pc, vm_sent, threads_spawned, vmVars>>

\* DAPHandler::handleStepIn
handleStepIn ==
    LET msg == Request("stepIn", NoArguments) IN
    /\ Received(msg)
    /\ setStepFromCurrent
    /\ stepMode_' = StepIn
    /\ resume
    /\ handler_sent' = <<Response(msg, "stepIn", TRUE, "")>>
    /\ UNCHANGED <<session, terminated_, launched_, execution_started_, bytecode_,
                   handler_pc>>
    /\ UNCHANGED <<debugMode_, currentInstruction_, hasDebugInfo_, debugInfo_,
                   breakpoints_, instructionBreakpoints_, stepOverDepth_, stepOutDepth_>>
    /\ UNCHANGED <<vm_pc, vm_sent, threads_spawned, vmVars>>

\* DAPHandler::handleStepOut
handleStepOut ==
    LET msg == Request("stepOut", NoArguments) IN
    /\ Received(msg)
    /\ setStepFromCurrent
    /\ stepMode_' = StepOut
    /\ stepOutDepth_' = getCallDepth
    /\ resume
    /\ handler_sent' = <<Response(msg, "stepOut", TRUE, "")>>
    /\ UNCHANGED <<session, terminated_, launched_, execution_started_, bytecode_,
                   handler_pc>>
    /\ UNCHANGED <<debugMode_, currentInstruction_, hasDebugInfo_, debugInfo_,
                   breakpoints_, instructionBreakpoints_, stepOverDepth_>>
    /\ UNCHANGED <<vm_pc, vm_sent, threads_spawned, vmVars>>

\* DAPHandler::handlePause
handlePause ==
    LET msg == Request("pause", NoArguments) IN
    /\ Received(msg)
    /\ paused_' = TRUE
    /\ since_pause' = IF debugMode_ /\ vm_pc \in LivePcs /\ since_pause < 0
                      THEN 0 ELSE since_pause
    /\ handler_sent' = <<Response(msg, "pause", TRUE, "")>>
    /\ UNCHANGED <<session, terminated_, launched_, execution_started_, bytecode_,
                   handler_pc>>
    /\ UNCHANGED <<debugMode_, currentInstruction_, hasDebugInfo_, debugInfo_,
                   breakpoints_, instructionBreakpoints_, stepMode_, stepOverDepth_,
                   stepOutDepth_, lastStepLine_, lastStepFileIndex_>>
    /\ UNCHANGED <<vm_pc, vm_sent, threads_spawned, vmVars>>

\* DAPHandler::handleVariables: as_number() on a variablesReference that is
\* no number throws; processMessage catches, logs and sends nothing
handleVariables ==
    \E arguments \in {VariablesArguments(TRUE), VariablesArguments(FALSE)} :
        LET msg == Request("variables", arguments) IN
        /\ Received(msg)
        /\ handler_sent' = IF arguments.present /\ ~arguments.reference_is_number
                           THEN <<>>
                           ELSE <<Response(msg, "variables", TRUE, "")>>
        /\ UNCHANGED <<session, terminated_, launched_, execution_started_, bytecode_,
                       handler_pc>>
        /\ UNCHANGED <<debugVars, threadVars, vmVars>>

\* DAPHandler::handleThreads, handleStackTrace, handleScopes: a body built
\* from the VM state and a successful response
handleQuery ==
    \E command \in {"threads", "stackTrace", "scopes"} :
        LET msg == Request(command, NoArguments) IN
        /\ Received(msg)
        /\ handler_sent' = <<Response(msg, command, TRUE, "")>>
        /\ UNCHANGED <<session, terminated_, launched_, execution_started_, bytecode_,
                       handler_pc>>
        /\ UNCHANGED <<debugVars, threadVars, vmVars>>

\* DAPHandler::handleEvaluate
handleEvaluate ==
    LET msg == Request("evaluate", NoArguments) IN
    /\ Received(msg)
    /\ handler_sent' = <<Response(msg, "evaluate", FALSE,
                           "Expression evaluation not implemented")>>
    /\ UNCHANGED <<session, terminated_, launched_, execution_started_, bytecode_,
                   handler_pc>>
    /\ UNCHANGED <<debugVars, threadVars, vmVars>>

\* commands processMessage has no branch for
UnknownCommands == {"restart"}

\* DAPHandler::processMessage, the final else branch
handleUnknown ==
    \E command \in UnknownCommands :
        LET msg == Request(command, NoArguments) IN
        /\ Received(msg)
        /\ handler_sent' = <<Response(msg, command, FALSE,
                               "Command not supported: " \o command)>>
        /\ UNCHANGED <<session, terminated_, launched_, execution_started_, bytecode_,
                       handler_pc>>
        /\ UNCHANGED <<debugVars, threadVars, vmVars>>

(* the thread that runs the VM *)
\* the thread body of handleContinue: run_with_debug (which sets debugMode_)
\* when there is debug information, run otherwise
ThreadStart ==
    /\ vm_pc = "spawned"
    /\ RunProgram(bytecode_)
    /\ debugMode_' = (debugMode_ \/ hasDebugInfo_)
    /\ vm_pc' = "top"
    /\ UNCHANGED handlerVars
    /\ UNCHANGED <<paused_, currentInstruction_, hasDebugInfo_, debugInfo_,
                   breakpoints_, instructionBreakpoints_, stepMode_, stepOverDepth_,
                   stepOutDepth_, lastStepLine_, lastStepFileIndex_>>
    /\ UNCHANGED <<vm_sent, threads_spawned, since_pause>>

\* DoofVM::run, top of the instruction loop: currentInstruction_ = ip, then
\* if (debugMode_)
LoopTop ==
    /\ vm_pc = "top"
    /\ AtInstruction
    /\ currentInstruction_' = CurrentIp
    /\ vm_sent' = <<>>
    /\ vm_pc' = IF debugMode_ THEN "pause_wait" ELSE "execute"
    /\ UNCHANGED handlerVars
    /\ UNCHANGED <<debugMode_, paused_, hasDebugInfo_, debugInfo_, breakpoints_,
                   instructionBreakpoints_, stepMode_, stepOverDepth_, stepOutDepth_,
                   lastStepLine_, lastStepFileIndex_>>
    /\ UNCHANGED <<threads_spawned, since_pause, vmVars>>

\* A plausible slip: the pause flag is not looked at.
PauseIgnored(paused) == TRUE

\* while (paused_) sleep: the loop is left when the flag is read as false
PauseWaitOver(paused) == ~paused

\* the VM thread moves from one position of the debug block to another and
\* changes nothing else
DebugGoto(from, to) ==
    /\ vm_pc = from
    /\ vm_pc' = to
    /\ UNCHANGED handlerVars
    /\ UNCHANGED <<debugMode_, currentInstruction_, hasDebugInfo_, debugInfo_,
                   breakpoints_, instructionBreakpoints_, stepMode_, stepOverDepth_,
                   stepOutDepth_>>
    /\ UNCHANGED <<threads_spawned, since_pause, vmVars>>

\* debug block: while (paused_) at the start of every instruction
PauseWait ==
    /\ PauseWaitOver(paused_)
    /\ DebugGoto("pause_wait", "bp_check")
    /\ UNCHANGED <<paused_, lastStepLine_, lastStepFileIndex_, vm_sent>>

\* debug block: if (hasBreakpointAtInstruction(ip)) paused_ = true
BreakpointCheck ==
    /\ vm_pc = "bp_check"
    /\ IF hasBreakpointAtInstruction(CurrentIp)
       THEN /\ paused_' = TRUE
            /\ DebugGoto("bp_check", "bp_notify")
       ELSE /\ UNCHANGED paused_
            /\ DebugGoto("bp_check", "step_check")
    /\ UNCHANGED <<lastStepLine_, lastStepFileIndex_, vm_sent>>

\* debug block: dapHandler_->notifyBreakpointHit(1)
BreakpointNotify ==
    /\ DebugGoto("bp_notify", "bp_wait")
    /\ vm_sent' = Append(vm_sent, Event("stopped", "breakpoint"))
    /\ stop_pending' = TRUE
    /\ UNCHANGED <<paused_, lastStepLine_, lastStepFileIndex_>>

\* debug block: while (paused_) after the breakpoint notification
BreakpointWait ==
    /\ PauseWaitOver(paused_)
    /\ DebugGoto("bp_wait", "step_check")
    /\ UNCHANGED <<paused_, lastStepLine_, lastStepFileIndex_, vm_sent>>

\* debug block: if (shouldBreakOnStep(ip, call_stack.size())) paused_ = true
\* and setStepFromLine to the current location
StepCheck ==
    /\ vm_pc = "step_check"
    /\ IF shouldBreakOnStep(CurrentIp, Len(call_stack))
       THEN LET currentLocation == getSourceFromInstruction(CurrentIp) IN
            /\ paused_' = TRUE
            /\ IF currentLocation.sourceLine # -1
               THEN /\ lastStepLine_' = currentLocation.sourceLine
                    /\ lastStepFileIndex_' = currentLocation.fileIndex
               ELSE UNCHANGED <<lastStepLine_, lastStepFileIndex_>>
            /\ DebugGoto("step_check", "step_notify")
       ELSE /\ UNCHANGED <<paused_, lastStepLine_, lastStepFileIndex_>>
            /\ DebugGoto("step_check", "execute")
    /\ UNCHANGED vm_sent

\* debug block: dapHandler_->notifyStepComplete(1)
StepNotify ==
    /\ DebugGoto("step_notify", "step_wait")
    /\ vm_sent' = Append(vm_sent, Event("stopped", "step"))
    /\ stop_pending' = TRUE
    /\ UNCHANGED <<paused_, lastStepLine_, lastStepFileIndex_>>

\* debug block: while (paused_) after the step notification
StepWait ==
    /\ PauseWaitOver(paused_)
    /\ DebugGoto("step_wait", "execute")
    /\ UNCHANGED <<paused_, lastStepLine_, lastStepFileIndex_, vm_sent>>

\* the switch of the instruction loop, reached through the debug block: the
\* instruction is executed and the loop starts over
DebugExec ==
    /\ vm_pc = "execute"
    /\ vm_pc' = "top"
    /\ since_pause' = IF since_pause >= 0 THEN since_pause + 1 ELSE since_pause
    /\ UNCHANGED <<handlerVars, debugVars, vm_sent, threads_spawned>>

\* A plausible slip: the end of the run is not reported.
sendNothing == <<>>

\* sendEvent("terminated")
sendTerminated == <<Event("terminated", "")>>

\* the run is over: HALT or the call stack became empty
RunReturned == vm_status \in {"halted", "returned"}
\* the run is over: an exception left run()
RunThrew == vm_status = "error"

\* thread body of handleContinue after run returned: sendEvent("terminated")
ThreadTerminated ==
    /\ vm_pc = "top"
    /\ RunReturned
    /\ vm_sent' = vm_sent \o sendTerminated
    /\ vm_pc' = "finished"
    /\ UNCHANGED <<handlerVars, debugVars, threads_spawned, since_pause, vmVars>>

\* thread body of handleContinue, catch (const std::exception&): an output
\* event with the error, then sendEvent("terminated")
ThreadCaught ==
    /\ vm_pc = "top"
    /\ RunThrew
    /\ vm_sent' = (vm_sent \o <<sendOutput("stderr")>>) \o sendTerminated
    /\ vm_pc' = "finished"
    /\ UNCHANGED <<handlerVars, debugVars, threads_spawned, since_pause, vmVars>>

\* json_runner main returns once dap.run() has returned: the process exits
\* and takes the detached VM thread with it
ProcessExit ==
    /\ session = "ended"
    /\ vm_pc \in LivePcs
    /\ vm_pc' = "killed"
    /\ UNCHANGED <<handlerVars, debugVars, vm_sent, threads_spawned, since_pause, vmVars>>

\* the session thread of the remote server: its lambda returns as soon as
\* dap.run(&channel) has returned, which destroys the DAPHandler, the DoofVM
\* and the SocketDAPChannel declared in it; the detached execution thread is
\* not joined, and the server process goes on accepting connections
SessionThreadReturn ==
    /\ session = "ended"
    /\ session' = "destroyed"
    /\ UNCHANGED <<terminated_, launched_, execution_started_, bytecode_, handler_pc,
                   request_count, last_request, handler_sent>>
    /\ UNCHANGED <<debugVars, threadVars, vmVars>>

\* the execution thread dereferences the destroyed objects: besides going on
\* with the values still found in the freed memory (the steps of the thread),
\* the access can end the server process
AccessDestroyed ==
    /\ session = "destroyed"
    /\ vm_pc \in LivePcs
    /\ vm_pc' = "killed"
    /\ UNCHANGED <<handlerVars, debugVars, vm_sent, threads_spawned, since_pause, vmVars>>

(***************************************************************************)
(* Part 4: the DAP channel (vm/src/dap_channel.cpp, the SocketDAPChannel   *)
(*         of vm/src/remote_server.cpp) under DAPHandler::run: what the    *)
(*         handler thread reads, and what it and the thread started by     *)
(*         handleContinue write.                                           *)
(***************************************************************************)
VARIABLES
    channel,        \* the channel of DAPHandler::run: "none" before the call,
                    \* "stdio" (StdioDAPChannel or std::cout) or "socket"
    incoming,       \* what the client wrote and readMessage has not consumed
    run_pc,         \* DAPHandler::run: "start", "read", "send" (inside
                    \* writeMessage), "returned" or "uncaught" (left by an
                    \* exception)
    stderr_lines,   \* number of lines written to std::cerr
    dispatched,     \* commands processMessage handed to their handlers
    outgoing,       \* the units written on the channel, in order
    writing,        \* per thread, the units of its framed message that are
                    \* not written yet
    sender_pc       \* the thread of handleContinue: "none", "running",
                    \* "send" (inside writeMessage) or "finished"

channelVars == <<channel, incoming, run_pc, stderr_lines, dispatched, outgoing,
                 writing, sender_pc>>

\* the longest input the client writes before it closes the channel
MaxIncoming == 3

\* the two threads that write on the channel
Writers == {"handler", "vm"}

\* what a client can put on the channel: a framed request, a framed text that
\* is not JSON, a header whose length is not a number, and a header block
\* without Content-Length
Items ==
    {[framing |-> "ok", json |-> "request", command |-> "continue"],
     [framing |-> "ok", json |-> "request", command |-> "threads"],
     [framing |-> "ok", json |-> "malformed", command |-> ""],
     [framing |-> "bad_length", json |-> "", command |-> ""],
     [framing |-> "no_content_length", json |-> "", command |-> ""]}

\* the inputs of length 1 .. MaxIncoming
RECURSIVE Inputs(_)
Inputs(n) ==
    IF n = 0 THEN {<<>>}
    ELSE LET shorter == Inputs(n - 1)
         IN shorter \cup {Append(s, item) : s \in {t \in shorter : Len(t) = n - 1},
                                             item \in Items}

ChannelInit ==
    /\ channel = "none"
    /\ incoming = <<>>
    /\ run_pc = "start"
    /\ stderr_lines = 0
    /\ dispatched = <<>>
    /\ outgoing = <<>>
    /\ writing = [w \in Writers |-> <<>>]
    /\ sender_pc = "none"

\* "Content-Length: " << size << "\r\n\r\n" << json: the four parts of the
\* n-th framed message of a thread
Framed(thread, n) ==
    [part \in 1..4 |-> [from |-> thread, message |-> n, part |-> part]]

\* the number of messages a thread has started to write
Started(thread) ==
    Cardinality({k \in DOMAIN outgoing :
                    outgoing[k].from = thread /\ outgoing[k].part = 1})

\* DAPHandler::run(channel): channel ? channel : &fallback
run ==
    /\ run_pc = "start"
    /\ \E kind \in {"stdio", "socket"}, input \in Inputs(MaxIncoming) :
          /\ input # <<>>
          /\ channel' = kind
          /\ incoming' = input
    /\ run_pc' = "read"
    /\ UNCHANGED <<stderr_lines, dispatched, outgoing, writing, sender_pc>>

\* std::stoi of the text after "Content-Length:"
stoi(item) == IF item.framing = "bad_length" THEN "invalid_argument" ELSE "length"

\* StdioDAPChannel::readMessage and SocketDAPChannel::readMessage on the next
\* item: "json" (returns true), "eof" (returns false), "skip" (the stdio loop
\* goes on to the next line) or "throw"
readMessage(kind, input) ==
    IF input = <<>> THEN "eof"
    ELSE LET item == Head(input)
         IN IF item.framing = "no_content_length"
            THEN IF kind = "socket" THEN "eof" ELSE "skip"
            ELSE IF stoi(item) = "invalid_argument" THEN "throw" ELSE "json"

\* DAPHandler::parseMessage: the type of the message it returns
parseMessage(item) == IF item.json = "malformed" THEN "error" ELSE "request"

\* DAPHandler::sendMessage: hands the framed text to writeMessage
sendMessage(thread) ==
    /\ writing' = [writing EXCEPT ![thread] = Framed(thread, Started(thread) + 1)]

\* while (!terminated_ && ch->readMessage(json)) processMessage(json), up to
\* the call of writeMessage for the response
runRead ==
    /\ run_pc = "read"
    /\ LET outcome == readMessage(channel, incoming)
       IN /\ incoming' = IF incoming = <<>> THEN <<>> ELSE Tail(incoming)
          /\ CASE outcome = "eof" ->
                    /\ run_pc' = "returned"
                    /\ UNCHANGED <<stderr_lines, dispatched, writing>>
               [] outcome = "throw" ->
                    /\ run_pc' = "uncaught"
                    /\ UNCHANGED <<stderr_lines, dispatched, writing>>
               [] outcome = "skip" ->
                    /\ run_pc' = "read"
                    /\ UNCHANGED <<stderr_lines, dispatched, writing>>
               [] outcome = "json" ->
                    IF parseMessage(Head(incoming)) = "error"
                    THEN /\ stderr_lines' = stderr_lines + 1
                         /\ run_pc' = "read"
                         /\ UNCHANGED <<dispatched, writing>>
                    ELSE /\ dispatched' = Append(dispatched, Head(incoming).command)
                         /\ sendMessage("handler")
                         /\ run_pc' = "send"
                         /\ UNCHANGED stderr_lines
    /\ UNCHANGED <<channel, outgoing, sender_pc>>

\* the handler returns from sendResponse: handleContinue starts the thread on
\* the first continue, then processMessage returns to the loop of run
Responded ==
    /\ run_pc' = "read"
    /\ sender_pc' = IF dispatched[Len(dispatched)] = "continue" /\ sender_pc = "none"
                    THEN "running" ELSE sender_pc

\* the thread returns from sendEvent("terminated")
Terminated ==
    /\ sender_pc' = "finished"
    /\ UNCHANGED run_pc

\* a thread has written n more units of its message
Written(thread, n) ==
    /\ outgoing' = outgoing \o SubSeq(writing[thread], 1, n)
    /\ writing' = [writing EXCEPT ![thread] = SubSeq(@, n + 1, Len(@))]
    /\ IF n < Len(writing[thread]) THEN UNCHANGED <<run_pc, sender_pc>>
       ELSE IF thread = "handler" THEN Responded ELSE Terminated
    /\ UNCHANGED <<channel, incoming, stderr_lines, dispatched>>

\* StdioDAPChannel::writeMessage (and the std::cout branch of sendMessage):
\* one insertion into std::cout
StdioWriteMessage(thread) ==
    /\ channel = "stdio"
    /\ writing[thread] # <<>>
    /\ Written(thread, 1)

\* SocketDAPChannel::writeMessage: one ::send of the loop, which transmits some
\* of what is left
SocketWriteMessage(thread) ==
    /\ channel = "socket"
    /\ writing[thread] # <<>>
    /\ \E n \in 1..Len(writing[thread]) : Written(thread, n)

\* the lambda of handleContinue: vm_->run returns, sendEvent("terminated")
ThreadSendTerminated ==
    /\ sender_pc = "running"
    /\ sendMessage("vm")
    /\ sender_pc' = "send"
    /\ UNCHANGED <<channel, incoming, run_pc, stderr_lines, dispatched, outgoing>>

ChannelNext ==
    \/ run /\ UNCHANGED <<taskVars, vmVars, dapVars, heapVars>>
    \/ runRead /\ UNCHANGED <<taskVars, vmVars, dapVars, heapVars>>
    \/ ThreadSendTerminated /\ UNCHANGED <<taskVars, vmVars, dapVars, heapVars>>
    \/ \E thread \in Writers :
          StdioWriteMessage(thread) /\ UNCHANGED <<taskVars, vmVars, dapVars, heapVars>>
    \/ \E thread \in Writers :
          SocketWriteMessage(thread) /\ UNCHANGED <<taskVars, vmVars, dapVars, heapVars>>

\* one step of the thread that runs the VM
VMThreadStep ==
    \/ ThreadStart /\ UNCHANGED <<stop_pending, before_request, idVars>>
    \/ /\ \/ LoopTop /\ UNCHANGED <<stop_pending, before_request, idVars>>
          \/ PauseWait /\ UNCHANGED <<stop_pending, before_request, idVars>>
          \/ BreakpointCheck /\ UNCHANGED <<stop_pending, before_request, idVars>>
          \/ BreakpointNotify /\ UNCHANGED <<before_request, idVars>>
          \/ BreakpointWait /\ UNCHANGED <<stop_pending, before_request, idVars>>
          \/ StepCheck /\ UNCHANGED <<stop_pending, before_request, idVars>>
          \/ StepNotify /\ UNCHANGED <<before_request, idVars>>
          \/ StepWait /\ UNCHANGED <<stop_pending, before_request, idVars>>
          \/ (DebugExec /\ (ExecLOADK_INT16 \/ ExecCALL \/ ExecRETURN \/ ExecHALT)
                 /\ UNCHANGED <<stop_pending, before_request, idVars>>)
          \/ ThreadTerminated /\ UNCHANGED <<stop_pending, before_request, idVars>>
          \/ ThreadCaught /\ UNCHANGED <<stop_pending, before_request, idVars>>
       /\ UNCHANGED heapVars

DAPNext ==
    \/ Setup /\ UNCHANGED <<taskVars, heapVars, channelVars, stop_pending, before_request, idVars>>
    \/ ChannelEOF /\ UNCHANGED <<taskVars, heapVars, channelVars, stop_pending, before_request, idVars>>
    \/ handleInitialize /\ UNCHANGED <<taskVars, heapVars, channelVars, stop_pending, before_request, idVars>>
    \/ handleLaunch /\ UNCHANGED <<taskVars, heapVars, channelVars, before_request, idVars>>
    \/ handleConfigurationDone /\ UNCHANGED <<taskVars, heapVars, channelVars, stop_pending, before_request, idVars>>
    \/ handleDisconnect /\ UNCHANGED <<taskVars, heapVars, channelVars, stop_pending, before_request, idVars>>
    \/ handleSetBreakpoints /\ UNCHANGED <<taskVars, heapVars, channelVars, stop_pending>>
    \/ handleSetBreakpointsAdd /\ UNCHANGED <<taskVars, heapVars, channelVars, stop_pending>>
    \/ handleContinue /\ UNCHANGED <<taskVars, heapVars, channelVars, before_request, idVars>>
    \/ handleContinueClear /\ UNCHANGED <<taskVars, heapVars, channelVars, stop_pending, before_request, idVars>>
    \/ handleNext /\ UNCHANGED <<taskVars, heapVars, channelVars, before_request, idVars>>
    \/ handleStepIn /\ UNCHANGED <<taskVars, heapVars, channelVars, before_request, idVars>>
    \/ handleStepOut /\ UNCHANGED <<taskVars, heapVars, channelVars, before_request, idVars>>
    \/ handlePause /\ UNCHANGED <<taskVars, heapVars, channelVars, stop_pending, before_request, idVars>>
    \/ handleVariables /\ UNCHANGED <<taskVars, heapVars, channelVars, stop_pending, before_request, idVars>>
    \/ handleQuery /\ UNCHANGED <<taskVars, heapVars, channelVars, stop_pending, before_request, idVars>>
    \/ handleEvaluate /\ UNCHANGED <<taskVars, heapVars, channelVars, stop_pending, before_request, idVars>>
    \/ handleUnknown /\ UNCHANGED <<taskVars, heapVars, channelVars, stop_pending, before_request, idVars>>
    \/ ThreadStart /\ UNCHANGED <<taskVars, channelVars, stop_pending, before_request, idVars>>
    \/ LoopTop /\ UNCHANGED <<taskVars, heapVars, channelVars, stop_pending, before_request, idVars>>
    \/ PauseWait /\ UNCHANGED <<taskVars, heapVars, channelVars, stop_pending, before_request, idVars>>
    \/ BreakpointCheck /\ UNCHANGED <<taskVars, heapVars, channelVars, stop_pending, before_request, idVars>>
    \/ BreakpointNotify /\ UNCHANGED <<taskVars, heapVars, channelVars, before_request, idVars>>
    \/ BreakpointWait /\ UNCHANGED <<taskVars, heapVars, channelVars, stop_pending, before_request, idVars>>
    \/ StepCheck /\ UNCHANGED <<taskVars, heapVars, channelVars, stop_pending, before_request, idVars>>
    \/ StepNotify /\ UNCHANGED <<taskVars, heapVars, channelVars, before_request, idVars>>
    \/ StepWait /\ UNCHANGED <<taskVars, heapVars, channelVars, stop_pending, before_request, idVars>>
    \/ DebugExec /\ ExecLOADK_INT16 /\ UNCHANGED <<taskVars, heapVars, channelVars, stop_pending, before_request, idVars>>
    \/ DebugExec /\ ExecCALL /\ UNCHANGED <<taskVars, heapVars, channelVars, stop_pending, before_request, idVars>>
    \/ DebugExec /\ ExecRETURN /\ UNCHANGED <<taskVars, heapVars, channelVars, stop_pending, before_request, idVars>>
    \/ DebugExec /\ ExecHALT /\ UNCHANGED <<taskVars, heapVars, channelVars, stop_pending, before_request, idVars>>
    \/ ThreadTerminated /\ UNCHANGED <<taskVars, heapVars, channelVars, stop_pending, before_request, idVars>>
    \/ ThreadCaught /\ UNCHANGED <<taskVars, heapVars, channelVars, stop_pending, before_request, idVars>>
    \/ ProcessExit /\ UNCHANGED <<taskVars, heapVars, channelVars, stop_pending, before_request, idVars>>
    \/ SessionThreadReturn /\ UNCHANGED <<taskVars, heapVars, channelVars, stop_pending, before_request, idVars>>
    \/ AccessDestroyed /\ UNCHANGED <<taskVars, heapVars, channelVars, stop_pending, before_request, idVars>>


VMNext ==
    \/ Run /\ UNCHANGED <<channelVars, taskVars, dapVars>>
    \/ RunAgain /\ UNCHANGED <<channelVars, taskVars, dapVars>>
    \/ FallOffEnd /\ UNCHANGED <<channelVars, taskVars, dapVars, heapVars>>
    \/ ExecHALT /\ UNCHANGED <<channelVars, taskVars, dapVars, heapVars>>
    \/ ExecMOVE /\ UNCHANGED <<channelVars, taskVars, dapVars, heapVars>>
    \/ ExecLOADK_INT16 /\ UNCHANGED <<channelVars, taskVars, dapVars, heapVars>>
    \/ ExecNEW_ARRAY /\ UNCHANGED <<channelVars, taskVars, dapVars, heapVars>>
    \/ ExecCALL /\ UNCHANGED <<channelVars, taskVars, dapVars, heapVars>>
    \/ ExecRETURN /\ UNCHANGED <<channelVars, taskVars, dapVars, heapVars>>
    \/ ExecCREATE_LAMBDA /\ UNCHANGED <<channelVars, taskVars, dapVars, heapVars>>
    \/ ExecCAPTURE_VALUE /\ UNCHANGED <<channelVars, taskVars, dapVars, heapVars>>
    \/ ExecINVOKE_LAMBDA /\ UNCHANGED <<channelVars, taskVars, dapVars, heapVars>>
    \/ ExecEXTERN_CALL /\ UNCHANGED <<channelVars, taskVars, dapVars, heapVars>>
    \/ ExecGET_GLOBAL /\ UNCHANGED <<channelVars, taskVars, dapVars, externVars>>
    \/ ExecSET_GLOBAL /\ UNCHANGED <<channelVars, taskVars, dapVars, externVars>>
    \/ GlobalRace /\ UNCHANGED <<channelVars, taskVars, dapVars, externVars>>
    \/ ExecLOADK /\ UNCHANGED <<channelVars, taskVars, dapVars, externVars>>
    \/ ExecNEW_OBJECT /\ UNCHANGED <<channelVars, taskVars, dapVars, externVars>>
    \/ ExecEQ_OBJECT /\ UNCHANGED <<channelVars, taskVars, dapVars, externVars>>
    \/ ExecNEW_SET /\ UNCHANGED <<channelVars, taskVars, dapVars, externVars>>
    \/ ExecADD_SET /\ UNCHANGED <<channelVars, taskVars, dapVars, externVars>>
    \/ ExecSIZE_SET /\ UNCHANGED <<channelVars, taskVars, dapVars, externVars>>
    \/ ExecNEW_SET_INT /\ UNCHANGED <<channelVars, taskVars, dapVars, externVars>>
    \/ ExecADD_SET_INT /\ UNCHANGED <<channelVars, taskVars, dapVars, externVars>>
    \/ ExecNEW_MAP /\ UNCHANGED <<channelVars, taskVars, dapVars, externVars>>
    \/ ExecSET_MAP /\ UNCHANGED <<channelVars, taskVars, dapVars, externVars>>
    \/ ExecJMP /\ UNCHANGED <<channelVars, taskVars, dapVars, externVars>>
    \/ ExecJMP_IF_FALSE /\ UNCHANGED <<channelVars, taskVars, dapVars, externVars>>
    \/ ExecJMP_IF_TRUE /\ UNCHANGED <<channelVars, taskVars, dapVars, externVars>>
    \/ ExecITER_INIT /\ UNCHANGED <<channelVars, taskVars, dapVars, externVars>>
    \/ ExecITER_NEXT /\ UNCHANGED <<channelVars, taskVars, dapVars, externVars>>
    \/ ExecITER_VALUE /\ UNCHANGED <<channelVars, taskVars, dapVars, externVars>>
    \/ ExecITER_KEY /\ UNCHANGED <<channelVars, taskVars, dapVars, externVars>>
    \/ HostBeginAccess /\ UNCHANGED <<channelVars, taskVars, dapVars, externVars>>
    \/ HostEndAccess /\ UNCHANGED <<channelVars, taskVars, dapVars, externVars>>

\* one step of one thread of the async runtime
TaskNext ==
    \E t \in Threads :
        \/ WorkerRun(t) /\ UNCHANGED <<poolVars, vmVars, dapVars, heapVars, channelVars>>
        \/ FutureGet(t) /\ UNCHANGED <<poolVars, vmVars, dapVars, heapVars, channelVars>>
        \/ FutureWait(t) /\ UNCHANGED <<poolVars, vmVars, dapVars, heapVars, channelVars>>
        \/ RunCas(t) /\ UNCHANGED <<poolVars, vmVars, dapVars, heapVars, channelVars>>
        \/ Execute(t) /\ UNCHANGED <<poolVars, vmVars, dapVars, heapVars, channelVars>>
        \/ ExecuteThrows(t) /\ UNCHANGED <<poolVars, vmVars, dapVars, heapVars, channelVars>>
        \/ RunLock(t) /\ UNCHANGED <<poolVars, vmVars, dapVars, heapVars, channelVars>>
        \/ RunStore(t) /\ UNCHANGED <<poolVars, vmVars, dapVars, heapVars, channelVars>>
        \/ RunUnlock(t) /\ UNCHANGED <<poolVars, vmVars, dapVars, heapVars, channelVars>>
        \/ RunNotify(t) /\ UNCHANGED <<poolVars, vmVars, dapVars, heapVars, channelVars>>
        \/ WaitLock(t) /\ UNCHANGED <<poolVars, vmVars, dapVars, heapVars, channelVars>>
        \/ WaitCheck(t) /\ UNCHANGED <<poolVars, vmVars, dapVars, heapVars, channelVars>>
        \/ SpuriousWake(t) /\ UNCHANGED <<poolVars, vmVars, dapVars, heapVars, channelVars>>
        \/ WaitUnlock(t) /\ UNCHANGED <<poolVars, vmVars, dapVars, heapVars, channelVars>>
        \/ GetRead(t) /\ UNCHANGED <<poolVars, vmVars, dapVars, heapVars, channelVars>>

\* the steps of thread t that the scheduler runs whenever they are possible:
\* everything but the decision to call the API and a spurious wake-up
ThreadStep(t) ==
    \/ RunCas(t)
    \/ Execute(t)
    \/ RunLock(t)
    \/ RunStore(t)
    \/ RunUnlock(t)
    \/ RunNotify(t)
    \/ WaitLock(t)
    \/ WaitCheck(t)
    \/ WaitUnlock(t)
    \/ GetRead(t)

(***************************************************************************)
(* The breakpoint interface of DebugState (debug.cpp), called by a host.   *)
(***************************************************************************)
\* the source locations a host asks a breakpoint for: line 3 of main.do,
\* line 10 of lib.do and a line without code
BreakpointLocations == {<<3, 0>>, <<10, 1>>, <<99, 0>>}

\* std::vector::erase(begin() + (k - 1))
erase(seq, k) == [j \in 1..(Len(seq) - 1) |-> IF j < k THEN seq[j] ELSE seq[j + 1]]

\* removeBreakpoint / enableBreakpoint: the id is taken as a position
ValidId(breakpointId) == ~(breakpointId < 1 \/ breakpointId > Len(breakpoints_))

OtherDebugVars == <<debugMode_, paused_, currentInstruction_, hasDebugInfo_, debugInfo_,
                    stepMode_, stepOverDepth_, stepOutDepth_, lastStepLine_,
                    lastStepFileIndex_>>

\* DebugState::addBreakpoint(sourceLine, fileIndex): returns -1 without a
\* change when the line has no instruction, else appends the breakpoint and
\* returns nextBreakpointId_++
DebugState_addBreakpoint ==
    \E location \in BreakpointLocations :
       LET added == addBreakpoint(breakpoints_, location[1], location[2]) IN
       /\ calls < MaxCalls
       /\ calls' = calls + 1
       /\ breakpoints_' = added
       /\ instructionBreakpoints_' = updateInstructionBreakpoints(added)
       /\ IF added = breakpoints_
          THEN UNCHANGED <<nextBreakpointId_, issued>>
          ELSE /\ nextBreakpointId_' = nextBreakpointId_ + 1
               /\ issued' = Append(issued, nextBreakpointId_)
       /\ UNCHANGED <<handlerVars, OtherDebugVars, threadVars, stop_pending,
                      before_request>>

\* DebugState::removeBreakpoint(breakpointId)
removeBreakpoint(breakpointId) ==
    /\ calls < MaxCalls
    /\ calls' = calls + 1
    /\ IF ~ValidId(breakpointId)
       THEN UNCHANGED <<breakpoints_, instructionBreakpoints_, issued>>
       ELSE /\ breakpoints_' = erase(breakpoints_, breakpointId)
            /\ instructionBreakpoints_' =
                   updateInstructionBreakpoints(erase(breakpoints_, breakpointId))
            /\ issued' = erase(issued, breakpointId)
    /\ UNCHANGED <<handlerVars, OtherDebugVars, threadVars, stop_pending,
                   before_request, nextBreakpointId_>>

\* DebugState::enableBreakpoint(breakpointId, enabled)
enableBreakpoint(breakpointId, enabled) ==
    /\ calls < MaxCalls
    /\ calls' = calls + 1
    /\ IF ~ValidId(breakpointId)
       THEN UNCHANGED <<breakpoints_, instructionBreakpoints_>>
       ELSE LET changed == [breakpoints_ EXCEPT ![breakpointId].enabled = enabled] IN
            /\ breakpoints_' = changed
            /\ instructionBreakpoints_' = updateInstructionBreakpoints(changed)
    /\ UNCHANGED <<handlerVars, OtherDebugVars, threadVars, stop_pending,
                   before_request, nextBreakpointId_, issued>>

\* DebugState::clearBreakpoints()
DebugState_clearBreakpoints ==
    /\ calls < MaxCalls
    /\ calls' = calls + 1
    /\ breakpoints_' = clearBreakpoints(breakpoints_)
    /\ instructionBreakpoints_' = updateInstructionBreakpoints(clearBreakpoints(breakpoints_))
    /\ issued' = <<>>
    /\ UNCHANGED <<handlerVars, OtherDebugVars, threadVars, stop_pending,
                   before_request, nextBreakpointId_>>

\* the ids a host passes: the ids handed out so far, and 0
BreakpointIds == 0..MaxCalls

BreakpointsNext ==
    \/ Setup /\ UNCHANGED <<taskVars, heapVars, channelVars, stop_pending, before_request, idVars>>
    \/ DebugState_addBreakpoint /\ UNCHANGED <<taskVars, vmVars, heapVars, channelVars>>
    \/ \E breakpointId \in BreakpointIds :
          removeBreakpoint(breakpointId) /\ UNCHANGED <<taskVars, vmVars, heapVars, channelVars>>
    \/ \E breakpointId \in BreakpointIds, enabled \in BOOLEAN :
          enableBreakpoint(breakpointId, enabled) /\ UNCHANGED <<taskVars, vmVars, heapVars, channelVars>>
    \/ DebugState_clearBreakpoints /\ UNCHANGED <<taskVars, vmVars, heapVars, channelVars>>

(***************************************************************************)
(* The thread pool of doof_runtime.cpp: submit, worker_loop, ~ThreadPool.  *)
(* A section run with queue_mutex held is one step.                        *)
(***************************************************************************)
PoolWorkers == 1..NumWorkers
PoolTasks == 1..MaxTasks

\* ThreadPool::ThreadPool: every worker is at the top of worker_loop
PoolInit ==
    /\ queue = <<>>
    /\ stop = FALSE
    /\ queue_cv = {}
    /\ worker_pc = [w \in PoolWorkers |-> "lock"]
    /\ worker_task = [w \in PoolWorkers |-> 0]
    /\ submitted = 0
    /\ submit_pc = "idle"
    /\ dtor_pc = "none"
    /\ dequeued = [t \in PoolTasks |-> 0]
    /\ run_calls = [t \in PoolTasks |-> 0]
    /\ terminate_ = FALSE

\* ThreadPool::submit: queue.push_back(task) under the lock; the pool is
\* alive, so its destructor has not been entered
submit ==
    /\ ~terminate_
    /\ dtor_pc = "none"
    /\ submit_pc = "idle"
    /\ submitted < MaxTasks
    /\ queue' = Append(queue, submitted + 1)
    /\ submitted' = submitted + 1
    /\ submit_pc' = "notify"
    /\ UNCHANGED <<stop, queue_cv, worker_pc, worker_task, dtor_pc, dequeued,
                   run_calls, terminate_>>

\* std::condition_variable::notify_one: one of the blocked threads, if any
notify_one(waiting) ==
    IF waiting = {} THEN {waiting} ELSE {waiting \ {w} : w \in waiting}

\* ThreadPool::submit: queue_cv.notify_one() after the lock is released
submitNotify ==
    /\ ~terminate_
    /\ submit_pc = "notify"
    /\ queue_cv' \in notify_one(queue_cv)
    /\ submit_pc' = "idle"
    /\ UNCHANGED <<queue, stop, worker_pc, worker_task, submitted, dtor_pc, dequeued,
                   run_calls, terminate_>>

\* worker_loop: if (stop && queue.empty()) return
ExitCondition(s, q) == s /\ q = <<>>

\* the predicate of queue_cv.wait in worker_loop
WakePredicate == stop \/ queue # <<>>

\* worker_loop, the section under the lock: wait for the predicate, return
\* when the pool stops with an empty queue, else pop the front task
worker_loop(w) ==
    /\ ~terminate_
    /\ worker_pc[w] = "lock"
    /\ IF ~WakePredicate
       THEN /\ queue_cv' = queue_cv \cup {w}
            /\ worker_pc' = [worker_pc EXCEPT ![w] = "waiting"]
            /\ UNCHANGED <<queue, worker_task, dequeued>>
       ELSE IF ExitCondition(stop, queue)
       THEN /\ worker_pc' = [worker_pc EXCEPT ![w] = "exited"]
            /\ UNCHANGED <<queue, queue_cv, worker_task, dequeued>>
       ELSE IF queue = <<>>
       THEN UNCHANGED <<queue, queue_cv, worker_pc, worker_task, dequeued>>
       ELSE /\ worker_task' = [worker_task EXCEPT ![w] = Head(queue)]
            /\ queue' = Tail(queue)
            /\ dequeued' = [dequeued EXCEPT ![Head(queue)] = @ + 1]
            /\ worker_pc' = [worker_pc EXCEPT ![w] = "run"]
            /\ UNCHANGED queue_cv
    /\ UNCHANGED <<stop, submitted, submit_pc, dtor_pc, run_calls, terminate_>>

\* queue_cv.wait: a notified worker takes the lock again
workerNotified(w) ==
    /\ ~terminate_
    /\ worker_pc[w] = "waiting"
    /\ w \notin queue_cv
    /\ worker_pc' = [worker_pc EXCEPT ![w] = "lock"]
    /\ UNCHANGED <<queue, stop, queue_cv, worker_task, submitted, submit_pc, dtor_pc,
                   dequeued, run_calls, terminate_>>

\* queue_cv.wait: a spurious wake-up
workerSpuriousWake(w) ==
    /\ ~terminate_
    /\ worker_pc[w] = "waiting"
    /\ w \in queue_cv
    /\ queue_cv' = queue_cv \ {w}
    /\ worker_pc' = [worker_pc EXCEPT ![w] = "lock"]
    /\ UNCHANGED <<queue, stop, worker_task, submitted, submit_pc, dtor_pc,
                   dequeued, run_calls, terminate_>>

\* worker_loop: task->run() returns (the body ran here, or run() found the
\* task already started)
workerRun(w) ==
    /\ ~terminate_
    /\ worker_pc[w] = "run"
    /\ run_calls' = [run_calls EXCEPT ![worker_task[w]] = @ + 1]
    /\ worker_task' = [worker_task EXCEPT ![w] = 0]
    /\ worker_pc' = [worker_pc EXCEPT ![w] = "lock"]
    /\ UNCHANGED <<queue, stop, queue_cv, submitted, submit_pc, dtor_pc, dequeued,
                   terminate_>>

\* worker_loop: the task body throws; TaskBase::run and worker_loop catch
\* nothing, the exception leaves the thread function and std::terminate
\* ends the process
workerRunThrows(w) ==
    /\ ~terminate_
    /\ worker_pc[w] = "run"
    /\ terminate_' = TRUE
    /\ UNCHANGED <<queue, stop, queue_cv, worker_pc, worker_task, submitted,
                   submit_pc, dtor_pc, dequeued, run_calls>>

\* ~ThreadPool: stop = true under the lock; no submit call is in progress
\* on an object that is being destroyed
dtorStop ==
    /\ ~terminate_
    /\ dtor_pc = "none"
    /\ submit_pc = "idle"
    /\ stop' = TRUE
    /\ dtor_pc' = "notify"
    /\ UNCHANGED <<queue, queue_cv, worker_pc, worker_task, submitted, submit_pc,
                   dequeued, run_calls, terminate_>>

\* ~ThreadPool: queue_cv.notify_all()
dtorNotify ==
    /\ ~terminate_
    /\ dtor_pc = "notify"
    /\ queue_cv' = {}
    /\ dtor_pc' = "join"
    /\ UNCHANGED <<queue, stop, worker_pc, worker_task, submitted, submit_pc,
                   dequeued, run_calls, terminate_>>

\* ~ThreadPool: every worker.join() has returned
dtorJoin ==
    /\ ~terminate_
    /\ dtor_pc = "join"
    /\ \A w \in PoolWorkers : worker_pc[w] = "exited"
    /\ dtor_pc' = "done"
    /\ UNCHANGED <<queue, stop, queue_cv, worker_pc, worker_task, submitted,
                   submit_pc, dequeued, run_calls, terminate_>>

TaskVarsOnly == <<state, result, mutex, cv, tpc, api, cas, exec_count, produced, got, aborted>>

PoolNext ==
    \/ submit /\ UNCHANGED <<TaskVarsOnly, vmVars, dapVars, heapVars, channelVars>>
    \/ submitNotify /\ UNCHANGED <<TaskVarsOnly, vmVars, dapVars, heapVars, channelVars>>
    \/ dtorStop /\ UNCHANGED <<TaskVarsOnly, vmVars, dapVars, heapVars, channelVars>>
    \/ dtorNotify /\ UNCHANGED <<TaskVarsOnly, vmVars, dapVars, heapVars, channelVars>>
    \/ dtorJoin /\ UNCHANGED <<TaskVarsOnly, vmVars, dapVars, heapVars, channelVars>>
    \/ \E w \in PoolWorkers :
          \/ worker_loop(w) /\ UNCHANGED <<TaskVarsOnly, vmVars, dapVars, heapVars, channelVars>>
          \/ workerNotified(w) /\ UNCHANGED <<TaskVarsOnly, vmVars, dapVars, heapVars, channelVars>>
          \/ workerSpuriousWake(w) /\ UNCHANGED <<TaskVarsOnly, vmVars, dapVars, heapVars, channelVars>>
          \/ workerRun(w) /\ UNCHANGED <<TaskVarsOnly, vmVars, dapVars, heapVars, channelVars>>
          \/ workerRunThrows(w) /\ UNCHANGED <<TaskVarsOnly, vmVars, dapVars, heapVars, channelVars>>

\* the steps of worker w that the scheduler runs whenever they are possible
\* (a spurious wake-up is not one of them)
WorkerStep(w) ==
    \/ worker_loop(w)
    \/ workerNotified(w)
    \/ workerRun(w)
    \/ workerRunThrows(w)

\* the steps of the threads that call submit and the destructor
PoolCallerStep == submitNotify \/ dtorNotify \/ dtorJoin

\* a host that registers extern classes and runs programs
ExternNext ==
    \/ ensure_extern_class /\ UNCHANGED <<taskVars, dapVars, channelVars>>
    \/ RunClassProgram /\ UNCHANGED <<taskVars, dapVars, channelVars>>
    \/ ExecHALT /\ UNCHANGED <<taskVars, dapVars, channelVars, heapVars>>

vars == <<taskVars, vmVars, dapVars, heapVars, channelVars>>

\* DoofVM::DoofVM leaves globals_ empty and registers StringBuilder, the
\* first extern class: next_negative_class_idx_ starts at -2
HeapInit ==
    /\ extern_classes_ = [name \in {"StringBuilder"} |-> -2]
    /\ next_negative_class_idx_ = -3
    /\ globals_ = <<>>
    /\ global_count = 0
    /\ run_count = 0
    /\ host_access = NoAccess
    /\ objects = <<>>
    /\ sets = <<>>
    /\ maps = <<>>
    /\ iterators = <<>>
    /\ yielded = <<>>

Init == TaskInit /\ PoolInit /\ VMInit /\ DAPInit /\ HeapInit /\ ChannelInit

\* the async runtime alone
SpecTask == Init /\ [][TaskNext]_vars

SpecPool == Init /\ [][PoolNext]_vars

SpecBreakpoints == Init /\ [][BreakpointsNext]_vars

SpecPoolFair ==
    /\ Init /\ [][PoolNext]_vars
    /\ \A w \in PoolWorkers :
          WF_vars(WorkerStep(w) /\ UNCHANGED <<TaskVarsOnly, vmVars, dapVars, heapVars, channelVars>>)
    /\ WF_vars(PoolCallerStep /\ UNCHANGED <<TaskVarsOnly, vmVars, dapVars, heapVars, channelVars>>)

\* the same system with threads that keep being scheduled
SpecTaskFair ==
    Init /\ [][TaskNext]_vars /\ \A t \in Threads : WF_vars(ThreadStep(t) /\ UNCHANGED <<poolVars, vmVars, dapVars, heapVars, channelVars>>)

\* as SpecTaskFair, and a thread that keeps asking for the mutex gets it:
\* the waiters that wake up and block again do not starve it
SpecTaskLockFair ==
    /\ SpecTaskFair
    /\ \A t \in Threads :
          SF_vars((RunLock(t) \/ WaitLock(t)) /\ UNCHANGED <<poolVars, vmVars, dapVars, heapVars, channelVars>>)

\* the VM alone
SpecVM == Init /\ [][VMNext]_vars

\* a step of the thread that is inside run()
InterpreterStep == vm_status = "running" /\ VMNext /\ UNCHANGED host_access

\* the VM alone, with a thread inside run() that keeps being scheduled
SpecVMFair == Init /\ [][VMNext]_vars /\ WF_vars(InterpreterStep)

\* the debugger: the handler thread and the thread that runs the VM
SpecDAP == Init /\ [][DAPNext]_vars

\* the extern class registry under registrations and runs
SpecExtern == Init /\ [][ExternNext]_vars

\* the channel of a debug session: the reading loop and the two writers
SpecChannel == Init /\ [][ChannelNext]_vars

\* the same system with a VM thread that keeps being scheduled
SpecDAPFair ==
    Init /\ [][DAPNext]_vars /\ WF_vars(VMThreadStep /\ UNCHANGED <<taskVars, channelVars>>)

(***************************************************************************)
(* Claims about the async runtime                                          *)
(***************************************************************************)

\* the positions inside TaskBase::wait
WaitPcs == {"wait_lock", "wait_check", "wait_blocked", "wait_unlock"}
\* the positions inside TaskBase::run after a successful compare-and-swap
BodyPcs == {"run_execute", "run_lock", "run_store", "run_unlock", "run_notify"}

\* C1: however many threads attempt run() on the same task, the body is
\* entered at most once: at most one compare-and-swap succeeds, and a thread
\* whose compare-and-swap failed never is inside the body of run().
C1_BodyAtMostOnce ==
    /\ exec_count <= 1
    /\ Cardinality({t \in Threads : cas[t] = "won"}) <= 1
    /\ \A t \in Threads : cas[t] = "lost" => tpc[t] \notin BodyPcs

\* C1 witness: the body ran once and two later attempts lost the race.
C1_Witness ==
    /\ exec_count = 1
    /\ Cardinality({t \in Threads : cas[t] = "lost"}) >= 2

\* C2: every change of the task state is PENDING -> RUNNING or
\* RUNNING -> COMPLETED.
C2_StateMachine ==
    [][state' # state =>
          \/ (state = PENDING /\ state' = RUNNING)
          \/ (state = RUNNING /\ state' = COMPLETED)]_vars

\* C2 witness: the task is completed and a later run() attempt found it so.
C2_Witness ==
    /\ state = COMPLETED
    /\ \E t \in Threads : cas[t] = "lost" /\ tpc[t] = "wait_lock" /\ mutex = FreeMutex

\* C3: a thread that is inside wait() when the state is COMPLETED eventually
\* leaves wait().
C3_NoLostWakeup ==
    \A t \in Threads :
        (state = COMPLETED /\ tpc[t] \in WaitPcs) ~> (tpc[t] \notin WaitPcs)

\* C3 witness: the state has just become COMPLETED while a waiter is blocked
\* on the condition variable and the notification has not been sent.
C3_Witness ==
    /\ state = COMPLETED
    /\ cv # {}
    /\ \E t \in Threads : tpc[t] \in {"run_unlock", "run_notify"}

\* C4: a thread that has seen the wait predicate hold finds the result
\* written, and Future::get() returns the value the body produced.
C4_ResultPublished ==
    \A t \in Threads :
        /\ tpc[t] \in {"wait_unlock", "get_read"} =>
              (Len(produced) = 1 /\ result = produced[1])
        /\ got[t] # NoValue => (Len(produced) = 1 /\ got[t] = produced[1])

\* C4 witness: get() returned a value on a thread that did not run the body.
C4_Witness ==
    \E t \in Threads : got[t] # NoValue /\ cas[t] = "lost"

\* C5: when the body throws, the task has published Null and is COMPLETED
\* once run() is left.
C5_ThrowPublishesNull ==
    \A t \in Threads :
        tpc[t] = "unwound" => (state = COMPLETED /\ result = TaskNull)

(***************************************************************************)
(* Claims about calls, returns, registers and lambdas                      *)
(***************************************************************************)

\* a CALL is executed and pushes its frame
CallEntered ==
    /\ AtOpcode("CALL")
    /\ vm_status' = "running"
    /\ Len(call_stack') = Len(call_stack) + 1

ReturnToCaller ==
    /\ AtOpcode("RETURN")
    /\ Len(call_stack) > 1
    /\ validate_register(Fetch.a)

\* C7: RETURN a in a frame that is not the outermost one pops exactly that
\* frame, stores the callee's register a in the caller's register 0, leaves
\* every other register of the caller alone and resumes the caller right
\* after the CALL or INVOKE_LAMBDA that pushed the popped frame.
C7_ReturnToCaller ==
    [][ReturnToCaller =>
          LET callee == current_frame
              caller == call_stack[Len(call_stack) - 1]
              resumed == call_stack'[Len(call_stack')]
              site == call_sites[Len(call_sites)]
          IN /\ vm_status' = "running"
             /\ Len(call_stack') = Len(call_stack) - 1
             /\ \A d \in 1..(Len(call_stack) - 2) : call_stack'[d] = call_stack[d]
             /\ DOMAIN resumed.registers = DOMAIN caller.registers
             /\ resumed.registers[0] = callee.registers[Fetch.a]
             /\ \A r \in DOMAIN caller.registers \ {0} :
                   resumed.registers[r] = caller.registers[r]
             /\ code[site + 1].opcode \in {"CALL", "INVOKE_LAMBDA"}
             /\ resumed.instruction_pointer = site + 1]_vars

\* C7 witness: G, called from F, called from main, has returned its argument
\* 11 into F's register 0 and F resumes after its CALL.
C7_Witness ==
    /\ vm_status = "running"
    /\ Len(call_stack) = 2
    /\ call_sites = <<2>>
    /\ code[5].opcode = "CALL"
    /\ CurrentIp = 5
    /\ current_frame.registers[0] = make_int(11)
    /\ current_frame.registers[1] = make_int(11)

\* C8: when RETURN a pops the last frame, the value register a held is
\* stored as the return value (main_return_value_) and run terminates.
C8_ReturnValueStored ==
    [][(AtOpcode("RETURN") /\ Len(call_stack) = 1 /\ validate_register(Fetch.a)) =>
          /\ vm_status' = "returned"
          /\ call_stack' = <<>>
          /\ main_return_value_' = current_frame.registers[Fetch.a]]_vars

\* C9: no instruction accesses a register whose index is outside the
\* register count of the frame it belongs to.
C9_RegisterPurity ==
    \A x \in reg_trace : x.idx >= 0 /\ x.idx < x.size

\* a CAPTURE_VALUE is executed
CaptureExecuted ==
    /\ AtOpcode("CAPTURE_VALUE")
    /\ vm_status' = "running"

\* an INVOKE_LAMBDA is executed and pushes its frame
LambdaEntered ==
    /\ AtOpcode("INVOKE_LAMBDA")
    /\ vm_status' = "running"
    /\ Len(call_stack') = Len(call_stack) + 1

C11_LambdaFullArguments ==
    [][LambdaEntered =>
          LET lambda == lambdas[current_frame.registers[Fetch.b].v]
              calling_frame == current_frame
              lambda_frame == call_stack'[Len(call_stack')]
          IN /\ lambda_frame.instruction_pointer = lambda.code_index
             /\ \A i \in 0..(lambda.parameter_count - 1) :
                   /\ (Fetch.a + i) \in DOMAIN calling_frame.registers
                   /\ (i + 1) \in DOMAIN lambda_frame.registers
                   /\ lambda_frame.registers[i + 1] = calling_frame.registers[Fetch.a + i]
             /\ \A k \in 1..Len(lambda.captured_values) :
                   /\ (lambda.parameter_count + k) \in DOMAIN lambda_frame.registers
                   /\ lambda_frame.registers[lambda.parameter_count + k] =
                         lambda.captured_values[k]]_vars

C13_StepOverDepth ==
    [][(/\ vm_pc = "step_check"
        /\ vm_pc' = "step_notify"
        /\ stepMode_ = StepOver) =>
            Len(call_stack) <= stepOverDepth_]_vars

\* C14: a thread is spawned only by the processing of a continue request,
\* that continue is the first one (no thread was spawned before, and a
\* continue processed while none was spawned does spawn one), the thread
\* leaves its initial position only after that, and there is never more than
\* one.
C14_SingleExecutionThread ==
    [][/\ threads_spawned' <= 1
       /\ (threads_spawned' # threads_spawned \/ (vm_pc = "none" /\ vm_pc' # "none")) =>
             /\ handler_pc = "continue"
             /\ handler_pc' = "idle"
             /\ last_request.command = "continue"
             /\ threads_spawned = 0
             /\ threads_spawned' = 1
             /\ vm_pc = "none"
             /\ vm_pc' = "spawned"
       /\ (/\ handler_pc = "continue"
           /\ handler_pc' = "idle"
           /\ threads_spawned = 0) => threads_spawned' = 1
       /\ (vm_status # "constructed") => threads_spawned = 1]_vars

\* C14 witness: a continue started the thread, the thread stopped at a
\* breakpoint, and a later continue, the last request processed, released it
\* without starting a second thread.
C14_Witness ==
    /\ threads_spawned = 1
    /\ last_request.command = "continue"
    /\ ~paused_
    /\ vm_pc = "step_check"
    /\ vm_sent = <<Event("stopped", "breakpoint")>>

C16_PauseAtBoundary ==
    /\ since_pause <= 1
    /\ since_pause >= 0 => paused_

\* C16 witness: after the pause request the thread completed the instruction
\* in progress and now waits, flag set, at the top of the next one.
C16_Witness ==
    /\ since_pause = 1
    /\ paused_
    /\ debugMode_
    /\ vm_pc = "pause_wait"
    /\ last_request.command = "pause"

\* C17 as stated: once the session has ended, a VM execution that was
\* started, running or paused, eventually reaches the end of its run.
C17_RunsToCompletion ==
    (session = "ended" /\ vm_pc \in LivePcs) ~>
        (vm_pc = "finished" \/ RunReturned \/ RunThrew)

C20_OneResponsePerRequest ==
    (handler_pc = "idle" /\ last_request # NoRequest) =>
        LET responses == {k \in DOMAIN handler_sent : handler_sent[k].type = "response"}
        IN /\ Cardinality(responses) = 1
           /\ \A k \in responses :
                 /\ handler_sent[k].request_seq = last_request.seq
                 /\ last_request.command \in UnknownCommands =>
                       /\ ~handler_sent[k].success
                       /\ handler_sent[k].message = "Command not supported"

(***************************************************************************)
(* Claims about globals, equality, iterators and sets                      *)
(***************************************************************************)
\* C22 as stated: whenever a run starts, the globals vector has exactly the
\* size the loaded bytecode declares and every slot holds Null, also for a
\* run that follows an earlier run with another global count.
C22_GlobalsFreshAtStart ==
    [][run_count' # run_count =>
          /\ DOMAIN globals_' = 0..(global_count' - 1)
          /\ \A i \in DOMAIN globals_' : globals_'[i] = Null]_vars

\* C21 as stated: accesses to the globals vector never overlap: the
\* interpreter executes GET_GLOBAL / SET_GLOBAL only while no other thread's
\* get_global / set_global is in progress, and another thread's call begins
\* only between two instructions (which is always so here) and ends before
\* the next global access of the interpreter.
C21_GlobalsSerialised ==
    [][(/\ AtInstruction
        /\ Fetch.opcode \in {"GET_GLOBAL", "SET_GLOBAL"}
        /\ vm_status' # "error"
        /\ <<vm_status, call_stack>> # <<vm_status', call_stack'>>) =>
            host_access = NoAccess]_vars

\* the variants that are compared by identity
IdentityCompared(x) ==
    type(x) \in {"Object", "Array", "Lambda", "Map", "Set", "IntMap", "IntSet",
                 "Iterator", "Future"}

\* C23 as stated: EQ_OBJECT on two values of identity-compared variants
\* yields true if they are the same heap node and false otherwise.
C23_EqualityIdentity ==
    [][(/\ AtOpcode("EQ_OBJECT")
        /\ validate_register(Fetch.a)
        /\ validate_register(Fetch.b)
        /\ validate_register(Fetch.c)
        /\ IdentityCompared(current_frame.registers[Fetch.b])
        /\ IdentityCompared(current_frame.registers[Fetch.c])
        /\ <<vm_status, call_stack>> # <<vm_status', call_stack'>>) =>
            /\ vm_status' = "running"
            /\ call_stack'[Len(call_stack')].registers[Fetch.a] =
                   make_bool(current_frame.registers[Fetch.b] =
                             current_frame.registers[Fetch.c])]_vars

\* the run is of one of the programs that add a value to a set twice
RunsSetProgram == \E p \in SetPrograms : code = p.code

\* C25 as stated: the second ADD_SET(s, x) leaves the set as it was after the
\* first, and SIZE_SET returns after it what it returned after the first.
C25_SetIdempotence ==
    /\ [][(/\ RunsSetProgram
           /\ AtInstruction
           /\ CurrentIp = 5
           /\ call_stack' # call_stack) => sets' = sets]_vars
    /\ [](RunsSetProgram /\ vm_status = "halted" =>
            current_frame.registers[6] = current_frame.registers[4])

\* the run is of one of the programs that fill a container and iterate it
RunsIterProgram == \E p \in IterPrograms : code = p.code

\* the contents of a container: the elements of an array or a set, the
\* values of a map
Contents(collection) ==
    IF type(collection) = "Array" THEN arrays[collection.v]
    ELSE IF type(collection) \in {"Set", "IntSet"} THEN sets[collection.v]
    ELSE [k \in DOMAIN maps[collection.v] |-> maps[collection.v][k].value]

\* t holds the elements of s, each exactly once, in some order
IsPermutation(s, t) ==
    /\ Len(s) = Len(t)
    /\ \E f \in Orders(Len(s)) : \A i \in 1..Len(s) : t[i] = s[f[i]]

\* C24: the loop ITER_INIT; while ITER_NEXT do ITER_VALUE over an Array, Set,
\* Map, IntSet or IntMap ends, and the values ITER_VALUE produced are the
\* contents of the container, each element exactly once, in some order.
C24_IteratorCoverage ==
    /\ [](RunsIterProgram /\ vm_status = "halted" =>
            IsPermutation(Contents(current_frame.registers[1]), yielded[1]))
    /\ (RunsIterProgram /\ vm_status = "running" ~> vm_status = "halted")

\* a loop over a container of two different elements has ended
C24_Witness ==
    /\ RunsIterProgram
    /\ vm_status = "halted"
    /\ Len(yielded[1]) = 2
    /\ yielded[1][1] # yielded[1][2]
    /\ type(current_frame.registers[1]) = "Set"

(***************************************************************************)
(* Claims about stepping and the debug channel                             *)
(***************************************************************************)
\* the stopped events the VM thread wrote in this visit of an instruction
StoppedEvents ==
    {k \in DOMAIN vm_sent :
        vm_sent[k] \in {Event("stopped", "breakpoint"), Event("stopped", "step")}}

\* C26 as stated: in a visit of an instruction that stopped for a breakpoint
\* the stepping check is not made, and no visit emits more than one stopped
\* event.
C26_StepCheckOnlyWithoutBreakpoint ==
    /\ [](vm_pc = "step_check" => (\A k \in DOMAIN vm_sent :
                                   vm_sent[k] # Event("stopped", "breakpoint")))
    /\ [](Cardinality(StoppedEvents) <= 1)

\* C27 as stated: once a continue request has been processed, and until the
\* next request is, the VM thread reports no stop with reason "step".
C27_NoStepStopAfterContinue ==
    [][(handler_pc = "idle" /\ last_request.command = "continue") =>
          ~(vm_pc = "step_notify" /\ vm_pc' = "step_wait")]_vars

\* C28 as stated, for a program with debug information: in step mode StepOut
\* the stepping check of an instruction stops the thread if the call depth is
\* below the depth recorded by the stepOut request, and does not stop it
\* otherwise.
C28_StepOutDepth ==
    [][(/\ vm_pc = "step_check"
        /\ stepMode_ = StepOut
        /\ hasDebugInfo_
        /\ vm_pc' \in {"step_notify", "execute"}) =>
            (vm_pc' = "step_notify" <=> Len(call_stack) < stepOutDepth_)]_vars

(***************************************************************************)
(* Claims about the DAP channel                                            *)
(***************************************************************************)

\* C29: every framed message is one contiguous unit of the channel's output:
\* a part that is not the first follows the part before it of the same
\* message, and a first part follows nothing or the last part of a message,
\* whichever thread wrote it
C29_FramesContiguous ==
    \A k \in DOMAIN outgoing :
        IF outgoing[k].part > 1
        THEN k > 1 /\ outgoing[k - 1] = [outgoing[k] EXCEPT !.part = @ - 1]
        ELSE k > 1 => outgoing[k - 1].part = 4

\* a message with malformed framing or malformed JSON
Malformed(item) == item.framing # "ok" \/ item.json = "malformed"

\* C30: when the reading loop consumes a malformed message it logs one line,
\* hands nothing to a handler, writes nothing, and goes on reading
C30_MalformedDropped ==
    [][(/\ run_pc = "read"
        /\ incoming # <<>>
        /\ Malformed(Head(incoming))
        /\ incoming' # incoming) =>
            (/\ run_pc' = "read"
             /\ stderr_lines' = stderr_lines + 1
             /\ dispatched' = dispatched
             /\ writing' = writing
             /\ sender_pc' = sender_pc)]_vars

(***************************************************************************)
(* Claims about the instruction pointer, iterators past their end, extern   *)
(* classes and reruns                                                       *)
(***************************************************************************)

\* C31: whenever the instruction pointer of the running interpreter lies
\* outside the instruction array (after a jump or after the last
\* instruction), the only step of the interpreter is the runtime error: no
\* instruction executes, the frames and the heap stay as they are
C31_NoFetchOutsideCode ==
    [][(/\ vm_status = "running"
        /\ call_stack # <<>>
        /\ (CurrentIp < 0 \/ CurrentIp >= Len(code))) =>
            (/\ vm_status' \in {"running", "error"}
             /\ UNCHANGED <<call_stack, code, constant_pool, containerVars, globalVars>>
             /\ ENABLED FallOffEnd)]_vars

\* C31 witness: a run of a jump program ended in the runtime error with the
\* instruction pointer before the array, where a taken jump had put it
C31_Witness ==
    /\ vm_status = "error"
    /\ call_stack # <<>>
    /\ CurrentIp < 0
    /\ \E p \in JumpPrograms : code = p.code

\* the iterator ITER_VALUE or ITER_KEY is about to be executed on
OperandIterator == iterators[current_frame.registers[Fetch.b].v]

\* the instruction at ip is ITER_VALUE on an iterator, or ITER_KEY on a map
\* iterator
AtIteratorRead ==
    /\ AtInstruction
    /\ Fetch.opcode \in {"ITER_VALUE", "ITER_KEY"}
    /\ validate_register(Fetch.a)
    /\ validate_register(Fetch.b)
    /\ type(current_frame.registers[Fetch.b]) = "Iterator"
    /\ Fetch.opcode = "ITER_KEY" => OperandIterator.type \in {"Map", "IntMap"}

\* C32: executing ITER_VALUE, or ITER_KEY on a map iterator, on an iterator
\* for which ITER_NEXT would yield false ends the run with a runtime error,
\* and no register and no iterator changes
C32_ExhaustedIteratorThrows ==
    [][(/\ AtIteratorRead
        /\ ~has_next(OperandIterator)
        /\ <<vmVars, containerVars>>' # <<vmVars, containerVars>>) =>
            (/\ vm_status' = "error"
             /\ call_stack' = call_stack
             /\ iterators' = iterators)]_vars

\* C32 witness: ITER_VALUE had produced both elements of an array, the next
\* ITER_VALUE raised the error and register 6 still holds the last element
C32_Witness ==
    /\ vm_status = "error"
    /\ \E p \in OverrunPrograms : code = p.code
    /\ Fetch.opcode = "ITER_VALUE"
    /\ iterators # <<>>
    /\ iterators[1].type = "Array"
    /\ Len(yielded[1]) = 2
    /\ ~has_next(iterators[1])
    /\ current_frame.registers[6] = yielded[1][2]

\* the registered extern classes whose index is negative
NegativeClasses == {name \in DOMAIN extern_classes_ : extern_classes_[name] < 0}

\* C33: the negative indices of extern classes are pairwise distinct, the
\* first is -2 and each new one is the one below the last; a class registered
\* while the loaded pool holds a class constant of its name takes that
\* constant's index instead; a name that is registered keeps its handle and,
\* between runs, its index; and when a run starts every registered class
\* whose name is a class constant of the pool has that constant's index
C33_ExternClassIndices ==
    /\ [](\A n1, n2 \in NegativeClasses :
             n1 # n2 => extern_classes_[n1] # extern_classes_[n2])
    /\ [](\A name \in NegativeClasses :
             /\ extern_classes_[name] <= -2
             /\ extern_classes_[name] > next_negative_class_idx_)
    /\ [](run_count = 0 =>
             {extern_classes_[name] : name \in DOMAIN extern_classes_} =
                 {-1 - k : k \in 1..Cardinality(DOMAIN extern_classes_)})
    /\ [][/\ DOMAIN extern_classes_ \subseteq DOMAIN extern_classes_'
          /\ \A name \in DOMAIN extern_classes_' \ DOMAIN extern_classes_ :
                LET idx == find_constant_pool_class_idx(constant_pool, name) IN
                IF idx >= 0
                THEN extern_classes_'[name] = idx /\ UNCHANGED next_negative_class_idx_
                ELSE /\ extern_classes_'[name] = next_negative_class_idx_
                     /\ next_negative_class_idx_' = next_negative_class_idx_ - 1
          /\ run_count' = run_count =>
                \A name \in DOMAIN extern_classes_ :
                    extern_classes_'[name] = extern_classes_[name]
          /\ run_count' # run_count =>
                \A name \in DOMAIN extern_classes_' :
                    LET idx == find_constant_pool_class_idx(constant_pool', name) IN
                    idx >= 0 => extern_classes_'[name] = idx]_vars

\* C33 witness: a and b were registered before the first run and received -3
\* and -4, and the run of the pool that holds b at index 1 and a at index 2
\* has given them these indices and left StringBuilder at -2
C33_Witness ==
    /\ vm_status = "running"
    /\ run_count = 1
    /\ next_negative_class_idx_ = -5
    /\ extern_classes_ = [name \in ExternNames |->
                             IF name = "a" THEN 2 ELSE IF name = "b" THEN 1 ELSE -2]

(***************************************************************************)
(* Claims about a stopped execution thread, the lifetime of the session's  *)
(* objects, the thread pool, breakpoints and reruns                        *)
(***************************************************************************)

\* an instruction of the loaded program is executed by the execution thread
InstructionExecuted == vm_pc = "execute" /\ vm_pc' = "top"

\* C34: from the emission of a stopped event (entry, breakpoint or step)
\* until a continue, next, stepIn or stepOut request is processed after it,
\* the execution thread executes no instruction
C34_StoppedMeansNoExecution ==
    [][InstructionExecuted => ~stop_pending]_vars

\* a step of the execution thread: every one reads or writes the DoofVM
\* through vm_, and the notifications and the final events go through the
\* DAPHandler to the channel
ThreadAccess == vm_pc \in LivePcs /\ vm_pc' # vm_pc /\ vm_pc' # "killed"

\* C35: the execution thread never accesses the DoofVM, the DAPHandler or
\* the channel after the session thread has destroyed them
C35_ObjectsOutliveThread ==
    [][ThreadAccess => session # "destroyed"]_vars

\* every submitted task is eventually popped by a worker whose task->run()
\* call on it returns
C36_Liveness ==
    \A t \in PoolTasks : (submitted >= t) ~> (dequeued[t] = 1 /\ run_calls[t] = 1)

\* no task is popped twice, and a worker leaves worker_loop only when stop
\* is set and the queue is empty
C36_Safety ==
    /\ [](\A t \in PoolTasks : dequeued[t] <= 1 /\ run_calls[t] <= dequeued[t])
    /\ [][\A w \in PoolWorkers :
            (worker_pc[w] # "exited" /\ worker_pc'[w] = "exited") =>
                (stop /\ queue = <<>>)]_vars

\* C36: every task submitted to a pool with at least one worker is
\* eventually dequeued and run by a worker, the tasks still queued when the
\* destructor sets stop included; workers exit only when stop is set and the
\* queue is empty, and no task is dequeued twice
C36_EveryTaskRuns == C36_Liveness /\ C36_Safety

\* the task body has terminated: func() returned or threw
BodyTerminated == exec_count > 0

\* get() of a caller on a task no thread has started: its run() moves the
\* task to Running and the caller executes the body itself
C37_Inline ==
    [][\A t \in Callers :
         (api[t] = "get" /\ tpc[t] = "run_cas" /\ tpc'[t] # "run_cas" /\ state = PENDING) =>
             (state' = RUNNING /\ cas'[t] = "won" /\ tpc'[t] = "run_execute")]_vars

\* a get() caller is inside wait() before the task is completed only when
\* another thread has won the compare-and-swap
C37_WaitsOnlyForRunning ==
    [](\A t \in Callers :
         (/\ api[t] = "get"
          /\ tpc[t] \in {"wait_lock", "wait_check", "wait_blocked"}
          /\ state # COMPLETED) =>
             (state = RUNNING /\ \E u \in Threads \ {t} : cas[u] = "won"))

\* get() returns once the body has terminated, whether or not the pool
\* worker ever takes the task
C37_Returns ==
    \A t \in Callers : (api[t] = "get" /\ BodyTerminated) ~> (got[t] # NoValue)

\* C37: Future::get() on a task that no thread has started executes the task
\* on the calling thread; so get() returns whenever the task body
\* terminates, with or without a pool worker, and it waits for another
\* thread only when that thread has already moved the task to Running
C37_GetNeverNeedsWorker == C37_Inline /\ C37_WaitsOnlyForRunning /\ C37_Returns

\* the active breakpoints the setBreakpoints request in progress ends with
AfterRequest ==
    updateInstructionBreakpoints(
        addBreakpoints(breakpoints_, last_request.arguments.lines,
                       ResolveFile(last_request.arguments.source)))

\* C38: a breakpoint that is present both before and after a setBreakpoints
\* request stays effective throughout the request: a thread in debug mode
\* that makes its breakpoint check at that instruction while the request is
\* being processed stops there
C38_BreakpointStaysEffective ==
    [][(/\ handler_pc = "add"
        /\ vm_pc = "bp_check" /\ vm_pc' # "bp_check"
        /\ CurrentIp \in before_request
        /\ CurrentIp \in AfterRequest) => vm_pc' = "bp_notify"]_vars

\* the breakpoint for which addBreakpoint returned this id is still in the list
Live(breakpointId) == \E k \in 1..Len(issued) : issued[k] = breakpointId

\* its position in breakpoints_
Position(breakpointId) == CHOOSE k \in 1..Len(issued) : issued[k] = breakpointId

\* C39: the id returned by addBreakpoint keeps identifying that breakpoint:
\* after any sequence of addBreakpoint, removeBreakpoint, enableBreakpoint
\* and clearBreakpoints calls, removeBreakpoint(id) removes, and
\* enableBreakpoint(id, e) changes, exactly the breakpoint for which
\* addBreakpoint returned id, and no breakpoint when that one is gone
C39_IdIdentifiesBreakpoint ==
    [][\A breakpointId \in BreakpointIds :
         /\ removeBreakpoint(breakpointId) =>
               IF Live(breakpointId)
               THEN /\ breakpoints_' = erase(breakpoints_, Position(breakpointId))
                    /\ issued' = erase(issued, Position(breakpointId))
               ELSE breakpoints_' = breakpoints_
         /\ \A enabled \in BOOLEAN :
               enableBreakpoint(breakpointId, enabled) =>
                  IF Live(breakpointId)
                  THEN breakpoints_' =
                           [breakpoints_ EXCEPT ![Position(breakpointId)].enabled = enabled]
                  ELSE breakpoints_' = breakpoints_]_vars

\* the frame DoofVM::DoofVM and an empty call stack give a run: 256
\* registers, all Null
AllNull(frame) == \A k \in DOMAIN frame.registers : frame.registers[k] = Null

\* C40: every call to run begins execution at the entry point with a call
\* stack of exactly one frame whose registers are all Null, however an
\* earlier run on the same VM ended
C40_RunStartsClean ==
    [][run_count' # run_count =>
          /\ vm_status' = "running"
          /\ Len(call_stack') = 1
          /\ AllNull(call_stack'[1])
          /\ \E p \in Programs :
                /\ code' = p.code
                /\ call_stack'[1].instruction_pointer = p.entry_point]_vars

====
